---- MODULE Spec2Model ----
(***************************************************************************)
(* State-machine model of the narrative-consistency pipeline of            *)
(* playbook_lite: TimelineConsistencyValidator (timeline_validator.py),    *)
(* the NarrativeExcavator it owns (archetypal_patterns.py) and the          *)
(* NarrativeOntologyBuilder it calls (narrative_ontology.py).              *)
(*                                                                         *)
(* Python floats are modelled as exact rationals <<n, d>> in lowest terms  *)
(* with d > 0, so that the weighted sums and the threshold comparisons of  *)
(* the code are computed exactly (float rounding is not modelled).         *)
(* Python None is modelled by the record [kind |-> "None"] for objects and *)
(* by the string "None" for the optional variant id.                       *)
(***************************************************************************)
EXTENDS Integers, Sequences, FiniteSets, TLC

VARIABLES
    canonical_nodes,     \* TimelineConsistencyValidator.canonical_nodes
    character_actions,   \* TimelineConsistencyValidator.character_actions
    active_patterns,     \* TimelineConsistencyValidator.active_patterns
    narrative_depth,     \* TimelineConsistencyValidator.narrative_depth
    current_variant_id,  \* TimelineConsistencyValidator.current_variant_id
    mappings,            \* NarrativeOntologyBuilder.mappings
    symbolic_depth,      \* NarrativeExcavator.symbolic_depth
    elements,            \* NarrativeOntologyBuilder.elements
    canonical_patterns,  \* NarrativeOntologyBuilder.canonical_patterns
    reference_nodes,     \* history: the beats each register_canonical_text call was given
    excavations,         \* history: runs of excavator.excavate_patterns made by the validator
    frye_patterns,       \* NarrativeOntologyBuilder.frye_patterns
    suits,               \* VRSystem.suits
    active_missions,     \* VRSystem.active_missions
    suit_up_successes,   \* history: the successful suit_up runs of each suit
    rooms,               \* villa_core.VillaDiodati.rooms
    persona_locations,   \* villa_core.VillaDiodati.persona_locations
    architecture_rooms,      \* villa_architecture.VillaDiodati.rooms
    architecture_locations,  \* villa_architecture.VillaDiodati.persona_locations
    current_affairs,         \* villa_architecture.VillaDiodati.current_affairs
    active_readings,         \* villa_architecture.VillaDiodati.active_readings
    vr_missions,             \* villa_architecture.VillaDiodati.vr_missions
    it_persona,          \* TagGame.it_persona
    rounds,              \* history: the play_round runs of the game
    call                 \* history: the last operation, its arguments before and after, its outcome

vars == <<canonical_nodes, character_actions, active_patterns, narrative_depth,
          current_variant_id, mappings, symbolic_depth, elements, canonical_patterns,
          reference_nodes, excavations, frye_patterns, suits, active_missions,
          suit_up_successes, rooms, persona_locations, architecture_rooms,
          architecture_locations, current_affairs, active_readings, vr_missions,
          it_persona, rounds, call>>

\* the state the validator, the excavator and the mapping operations never write
beyondNarrative ==
    <<frye_patterns, suits, active_missions, suit_up_successes, rooms, persona_locations,
      architecture_rooms, architecture_locations, current_affairs, active_readings,
      vr_missions, it_persona, rounds>>

\* the state of the VR system (vr_system.py)
vr == <<suits, active_missions, suit_up_successes>>

\* the state of the villa of villa_core.py
villaCore == <<rooms, persona_locations>>

\* the state of the game of tag (tag_game.py) beside the villa it is played in
tagGame == <<it_persona, rounds>>

\* the state of the villa of villa_architecture.py
villaArchitecture ==
    <<architecture_rooms, architecture_locations, current_affairs, active_readings,
      vr_missions>>

\* the state of the narrative pipeline, which no other operation writes
narrative == <<canonical_nodes, character_actions, active_patterns, narrative_depth,
               current_variant_id, mappings, symbolic_depth, elements,
               canonical_patterns, reference_nodes, excavations>>

\* the state of playbook_lite, which no operation of the villa writes
playbook == <<narrative, frye_patterns>>

---------------------------------------------------------------------------
(* Bounds of the model *)

\* excavation runs after which no further validate call is explored
MaxExcavations == 2
\* canonical actions registered per validator
MaxRegistered == 1

---------------------------------------------------------------------------
(* Exact rational arithmetic standing for Python float arithmetic *)

RECURSIVE GCD(_, _)
GCD(a, b) == IF b = 0 THEN a ELSE GCD(b, a % b)

AbsInt(n) == IF n < 0 THEN 0 - n ELSE n

\* the rational n/d (d > 0) in lowest terms
Q(n, d) == LET g == GCD(AbsInt(n), d) IN <<n \div g, d \div g>>

Zero == Q(0, 1)
One == Q(1, 1)

QAdd(x, y) == Q(x[1] * y[2] + y[1] * x[2], x[2] * y[2])
QSub(x, y) == Q(x[1] * y[2] - y[1] * x[2], x[2] * y[2])
QMul(x, y) == Q(x[1] * y[1], x[2] * y[2])
\* x / n for a positive integer n (a len(...) in the code)
QDivInt(x, n) == Q(x[1], x[2] * n)
\* x / y for y > 0
QDiv(x, y) == Q(x[1] * y[2], x[2] * y[1])
QLess(x, y) == x[1] * y[2] < y[1] * x[2]
QLeq(x, y) == x[1] * y[2] <= y[1] * x[2]
QAbs(x) == <<AbsInt(x[1]), x[2]>>
QMin(x, y) == IF QLess(y, x) THEN y ELSE x
QMax(x, y) == IF QLess(x, y) THEN y ELSE x

\* sum of f[x] over x in S
RECURSIVE QSum(_, _)
QSum(f, S) ==
    IF S = {} THEN Zero
    ELSE LET x == CHOOSE y \in S : TRUE
         IN QAdd(f[x], QSum(f, S \ {x}))

\* product of f[x] over x in S
RECURSIVE QProd(_, _)
QProd(f, S) ==
    IF S = {} THEN One
    ELSE LET x == CHOOSE y \in S : TRUE
         IN QMul(f[x], QProd(f, S \ {x}))

\* dict.get(key, default)
Get(d, key, default) == IF key \in DOMAIN d THEN d[key] ELSE default

\* x in list
InList(x, s) == \E i \in 1..Len(s) : s[i] = x

\* the element of a one-element set; Only({e(x) : x \in {v}}) is e of the value of v,
\* computed once and held as the code holds a local variable
Only(S) == CHOOSE y \in S : TRUE

\* the empty dict / empty list
Empty == <<>>

None == [kind |-> "None"]
NoVariant == "None"

---------------------------------------------------------------------------
(* archetypal_patterns.py: the pattern library and the NarrativeExcavator *)

\* A text (description, action_text) is modelled by the set of its lower-cased
\* whitespace-separated words: text.lower().split() is the set itself, and
\* "term.lower() in text.lower()" is membership (the texts of the model hold a
\* term only as a whole word).
Contains(text, term) == term \in text

\* NarrativeExcavator.archetypal_patterns
archetypal_patterns ==
    [p \in {"hero_journey", "tragic_fall", "rebirth", "quest"} |->
        CASE p = "hero_journey" ->
               [name |-> "The Hero's Journey",
                core_themes |-> {"transformation", "return", "sacrifice"},
                character_roles |-> [c \in {"mentor", "shadow", "threshold_guardian"} |->
                    CASE c = "mentor" -> "guide"
                      [] c = "shadow" -> "challenger"
                      [] OTHER -> "gatekeeper"],
                symbolic_elements |-> [s \in {"rebirth", "crossing_threshold", "descent"} |->
                    CASE s = "crossing_threshold" -> Q(8, 10)
                      [] s = "descent" -> Q(7, 10)
                      [] OTHER -> Q(9, 10)],
                narrative_tensions |-> << <<"ordinary", "extraordinary">>,
                                          <<"fear", "courage">>,
                                          <<"death", "rebirth">> >>]
          [] p = "tragic_fall" ->
               [name |-> "Tragic Fall",
                core_themes |-> {"hubris", "nemesis", "recognition"},
                character_roles |-> [c \in {"nemesis", "tragic_hero", "chorus"} |->
                    CASE c = "tragic_hero" -> "protagonist"
                      [] c = "nemesis" -> "antagonist"
                      [] OTHER -> "witness"],
                symbolic_elements |-> [s \in {"recognition", "fatal_flaw", "prophecy"} |->
                    CASE s = "fatal_flaw" -> Q(9, 10)
                      [] s = "prophecy" -> Q(7, 10)
                      [] OTHER -> Q(8, 10)],
                narrative_tensions |-> << <<"pride", "fall">>,
                                          <<"destiny", "free_will">>,
                                          <<"knowledge", "ignorance">> >>]
          [] p = "rebirth" ->
               [name |-> "Rebirth",
                core_themes |-> {"redemption", "forgiveness", "renewal"},
                character_roles |-> [c \in {"witness", "fallen_hero", "catalyst"} |->
                    CASE c = "fallen_hero" -> "protagonist"
                      [] c = "catalyst" -> "guide"
                      [] OTHER -> "observer"],
                symbolic_elements |-> [s \in {"darkness", "light", "water", "spring"} |->
                    CASE s = "darkness" -> Q(8, 10)
                      [] s = "light" -> Q(8, 10)
                      [] s = "water" -> Q(7, 10)
                      [] OTHER -> Q(6, 10)],
                narrative_tensions |-> << <<"sin", "redemption">>,
                                          <<"isolation", "connection">>,
                                          <<"past", "future">> >>]
          [] OTHER ->
               [name |-> "The Quest",
                core_themes |-> {"seeking", "discovery", "trial"},
                character_roles |-> [c \in {"seeker", "helper", "adversary"} |->
                    CASE c = "seeker" -> "protagonist"
                      [] c = "helper" -> "ally"
                      [] OTHER -> "challenger"],
                symbolic_elements |-> [s \in {"journey", "artifact", "obstacle"} |->
                    CASE s = "journey" -> Q(9, 10)
                      [] s = "artifact" -> Q(8, 10)
                      [] OTHER -> Q(7, 10)],
                narrative_tensions |-> << <<"ignorance", "wisdom">>,
                                          <<"weakness", "strength">>,
                                          <<"doubt", "faith">> >>]]

\* the (character, index) slots of node.character_actions, one per listed action
ActionSlots(node) ==
    UNION {{<<c, i>> : i \in 1..Len(node.character_actions[c])} :
              c \in DOMAIN node.character_actions}

\* the action in a slot
ActionAt(node, slot) == node.character_actions[slot[1]][slot[2]]

\* a node whose thematic_elements is None instead of a dict
NoThemeMap(node) == node.thematic_elements = None

\* line 148 raises (AttributeError: None has no get) when a theme is looked up in
\* such a node
ThematicFails(core_themes, nodes) ==
    /\ nodes # Empty
    /\ core_themes # {}
    /\ \E i \in 1..Len(nodes) : NoThemeMap(nodes[i])

\* lines 194-197 raise when the description of such a node lacks one of the two
\* terms of a pair, so that the test goes on to the node's themes
TensionFails(tensions, nodes) ==
    /\ nodes # Empty
    /\ \E k \in 1..Len(tensions), i \in 1..Len(nodes) :
          /\ NoThemeMap(nodes[i])
          /\ ~(Contains(nodes[i].description, tensions[k][1])
                /\ Contains(nodes[i].description, tensions[k][2]))

\* a thematic resonance that sums each theme over the nodes without averaging
_calculate_thematic_resonance_summed(core_themes, nodes) ==
    IF nodes = Empty \/ core_themes = {} THEN Zero
    ELSE QDivInt(QSum([t \in core_themes |->
                          QSum([i \in 1..Len(nodes) |->
                                   Get(nodes[i].thematic_elements, t, Zero)],
                               1..Len(nodes))],
                      core_themes),
                 Cardinality(core_themes))

\* NarrativeExcavator._calculate_thematic_resonance
_calculate_thematic_resonance(core_themes, nodes) ==
    IF nodes = Empty THEN Zero
    ELSE IF ThematicFails(core_themes, nodes) THEN Zero      \* lines 154-156
    ELSE LET theme_presence(theme) ==
                 QDivInt(QSum([i \in 1..Len(nodes) |->
                                  Get(nodes[i].thematic_elements, theme, Zero)],
                              1..Len(nodes)),
                         Len(nodes))
             total_resonance ==
                 QSum([t \in core_themes |-> theme_presence(t)], core_themes)
         IN IF core_themes # {} THEN QDivInt(total_resonance, Cardinality(core_themes))
            ELSE Zero

\* a symbolic resonance that counts a pattern without symbols as fully present
_calculate_symbolic_resonance_vacuous(symbols, nodes) ==
    IF nodes = Empty THEN Zero
    ELSE IF DOMAIN symbols = {} THEN One
    ELSE LET present(symbol, node) ==
                 \/ Contains(node.description, symbol)
                 \/ \E sl \in ActionSlots(node) :
                        Contains(ActionAt(node, sl).action_text, symbol)
             symbol_presence(symbol) ==
                 Q(Cardinality({i \in 1..Len(nodes) : present(symbol, nodes[i])}),
                   Len(nodes))
             total_resonance ==
                 QSum([s \in DOMAIN symbols |-> QMul(symbol_presence(s), symbols[s])],
                      DOMAIN symbols)
         IN QDivInt(total_resonance, Cardinality(DOMAIN symbols))

\* NarrativeExcavator._calculate_symbolic_resonance
_calculate_symbolic_resonance(symbols, nodes) ==
    IF nodes = Empty \/ DOMAIN symbols = {} THEN Zero
    ELSE LET present(symbol, node) ==
                 \/ Contains(node.description, symbol)
                 \/ \E sl \in ActionSlots(node) :
                        Contains(ActionAt(node, sl).action_text, symbol)
             symbol_presence(symbol) ==
                 Q(Cardinality({i \in 1..Len(nodes) : present(symbol, nodes[i])}),
                   Len(nodes))
             total_resonance ==
                 QSum([s \in DOMAIN symbols |-> QMul(symbol_presence(s), symbols[s])],
                      DOMAIN symbols)
         IN QDivInt(total_resonance, Cardinality(DOMAIN symbols))

\* NarrativeExcavator._calculate_tension_resonance
_calculate_tension_resonance(tensions, nodes) ==
    IF nodes = Empty \/ tensions = Empty THEN Zero
    ELSE IF TensionFails(tensions, nodes) THEN Zero          \* lines 204-206
    ELSE LET tense(pair, node) ==
                 \/ /\ Contains(node.description, pair[1])
                    /\ Contains(node.description, pair[2])
                 \/ /\ QLess(Q(3, 10), Get(node.thematic_elements, pair[1], Zero))
                    /\ QLess(Q(3, 10), Get(node.thematic_elements, pair[2], Zero))
             tension_presence(pair) ==
                 Q(Cardinality({i \in 1..Len(nodes) : tense(pair, nodes[i])}),
                   Len(nodes))
             total_resonance ==
                 QSum([k \in 1..Len(tensions) |-> tension_presence(tensions[k])],
                      1..Len(tensions))
         IN QDivInt(total_resonance, Len(tensions))

\* a measure whose sub-score functions let their exceptions through, so that the
\* except clause of lines 135-137 gives 0.0 for the whole pattern
_measure_pattern_resonance_aborting(pattern, nodes) ==
    IF ThematicFails(pattern.core_themes, nodes)
       \/ TensionFails(pattern.narrative_tensions, nodes)
    THEN Zero
    ELSE QAdd(QAdd(QMul(_calculate_thematic_resonance(pattern.core_themes, nodes), Q(4, 10)),
                   QMul(_calculate_symbolic_resonance(pattern.symbolic_elements, nodes),
                        Q(3, 10))),
              QMul(_calculate_tension_resonance(pattern.narrative_tensions, nodes), Q(3, 10)))

\* NarrativeExcavator._measure_pattern_resonance
_measure_pattern_resonance(pattern, nodes) ==
    QAdd(QAdd(QMul(_calculate_thematic_resonance(pattern.core_themes, nodes), Q(4, 10)),
              QMul(_calculate_symbolic_resonance(pattern.symbolic_elements, nodes), Q(3, 10))),
         QMul(_calculate_tension_resonance(pattern.narrative_tensions, nodes), Q(3, 10)))

\* an excavation that also keeps a pattern whose resonance equals the threshold (>=)
excavate_patterns_inclusive(timeline_nodes) ==
    LET resonance(p) == _measure_pattern_resonance(archetypal_patterns[p], timeline_nodes)
        kept == {p \in DOMAIN archetypal_patterns : QLeq(Q(4, 10), resonance(p))}
    IN [p \in kept |-> resonance(p)]

\* NarrativeExcavator.excavate_patterns: pattern id -> resonance, above the threshold
excavate_patterns(timeline_nodes) ==
    LET resonance(p) == _measure_pattern_resonance(archetypal_patterns[p], timeline_nodes)
        kept == {p \in DOMAIN archetypal_patterns : QLess(Q(4, 10), resonance(p))}
    IN [p \in kept |-> resonance(p)]

\* every symbol some library pattern knows
LibrarySymbols ==
    UNION {DOMAIN archetypal_patterns[p].symbolic_elements : p \in DOMAIN archetypal_patterns}

\* NarrativeExcavator._extract_symbols: iterating the themes of a node without a
\* theme map raises, and the except clause returns the empty set (lines 262-264)
_extract_symbols(node) ==
    IF NoThemeMap(node) THEN {} ELSE
    LET from_description == node.description \cap LibrarySymbols
        from_actions ==
            UNION {ActionAt(node, sl).action_text \cap LibrarySymbols : sl \in ActionSlots(node)}
        from_themes == DOMAIN node.thematic_elements \cap LibrarySymbols
    IN from_description \cup from_actions \cup from_themes

\* a symbol depth returned without the final min(depth, 1.0)
_calculate_symbol_depth_unclamped(symbol, node) ==
    IF NoThemeMap(node) THEN Zero ELSE
    LET mentioning == {sl \in ActionSlots(node) : Contains(ActionAt(node, sl).action_text, symbol)}
        base == IF Contains(node.description, symbol) THEN Q(3, 10) ELSE Zero
        arcs == QMul(Q(Cardinality(mentioning), 1), Q(2, 10))
        themes == {t \in DOMAIN node.thematic_elements : t = symbol}
        thematic == QSum([t \in themes |-> QMul(node.thematic_elements[t], Q(3, 10))], themes)
        tension_integration ==
            QSum([sl \in mentioning |-> QMul(ActionAt(node, sl).impact_level, Q(2, 10))],
                 mentioning)
    IN QAdd(QAdd(QAdd(base, arcs), thematic), tension_integration)

\* NarrativeExcavator._calculate_symbol_depth
_calculate_symbol_depth(symbol, node) ==
    IF NoThemeMap(node) THEN Zero ELSE                       \* lines 296-298
    LET mentioning == {sl \in ActionSlots(node) : Contains(ActionAt(node, sl).action_text, symbol)}
        base == IF Contains(node.description, symbol) THEN Q(3, 10) ELSE Zero
        arcs == QMul(Q(Cardinality(mentioning), 1), Q(2, 10))
        themes == {t \in DOMAIN node.thematic_elements : t = symbol}
        thematic == QSum([t \in themes |-> QMul(node.thematic_elements[t], Q(3, 10))], themes)
        tension_integration ==
            QSum([sl \in mentioning |-> QMul(ActionAt(node, sl).impact_level, Q(2, 10))],
                 mentioning)
        depth == QAdd(QAdd(QAdd(base, arcs), thematic), tension_integration)
    IN QMin(depth, One)

\* the depths of one symbol over the nodes that hold it, in node order (lines 216-221)
RECURSIVE DepthsOf(_, _)
DepthsOf(symbol, nodes) ==
    IF nodes = Empty THEN Empty
    ELSE LET rest == DepthsOf(symbol, Tail(nodes))
         IN IF symbol \in _extract_symbols(Head(nodes))
            THEN <<_calculate_symbol_depth(symbol, Head(nodes))>> \o rest
            ELSE rest

\* NarrativeExcavator.analyze_narrative_depth: symbol -> its depth in each node holding it
analyze_narrative_depth(nodes) ==
    IF nodes = Empty THEN Empty
    ELSE LET found == UNION {_extract_symbols(nodes[i]) : i \in 1..Len(nodes)}
         IN [s \in found |-> DepthsOf(s, nodes)]

---------------------------------------------------------------------------
(* narrative_ontology.py: what the validator's call of analyze_variant does *)

\* the fields the dataclass CanonicalMapping declares
CanonicalMappingFields ==
    {"frye_patterns", "melville_resonance", "source_text_id", "canonical_elements",
     "thematic_fidelity", "structural_resonance", "divergent_elements"}

\* the keyword arguments _create_ontological_mapping passes to CanonicalMapping(...)
MappingKeywords ==
    {"element_mappings", "archetypal_shifts", "variant_id", "base_text_id",
     "structural_similarities"}

\* the attributes the dataclass TimelineNode declares
TimelineNodeFields ==
    {"character_actions", "thematic_elements", "description", "characters_present", "id",
     "title", "date", "next_nodes", "requirements", "tension_level", "is_branch_point",
     "branch_consequences", "time_of_day", "duration"}

\* NarrativeOntologyBuilder._extract_narrative_elements raises (AttributeError) when it
\* reads node.location of a first node
ExtractElementsRaises(nodes) == nodes # Empty /\ "location" \notin TimelineNodeFields

\* NarrativeOntologyBuilder._create_ontological_mapping raises (TypeError) when the
\* dataclass constructor is given a keyword that is no field of it
CreateMappingRaises == ~(MappingKeywords \subseteq CanonicalMappingFields)

\* NarrativeOntologyBuilder.melville_works (the sets the resonance reads)
melville_works ==
    [w \in {"moby_dick", "billy_budd", "bartleby"} |->
        CASE w = "moby_dick" ->
               [symbols |-> {"whale", "sea", "whiteness", "ship"},
                themes |-> {"isolation", "faith", "obsession", "nature", "revenge"},
                character_types |-> {"monomaniac", "isolato", "prophet"}]
          [] w = "billy_budd" ->
               [symbols |-> {"handsome_sailor", "mutiny", "law", "hanging"},
                themes |-> {"innocence", "authority", "duty", "moral_ambiguity"},
                character_types |-> {"innocent", "authority_figure", "tragic_witness"}]
          [] OTHER ->
               [symbols |-> {"wall", "office", "dead_letters", "preference"},
                themes |-> {"resistance", "alienation", "capitalism", "humanity"},
                character_types |-> {"observer", "passive_resister", "corporate_figure"}]]

\* lines 271-289: the resonance of one node with one work
WorkResonance(node, patterns) ==
    LET theme_matches ==
            Cardinality({t \in patterns.themes : t \in DOMAIN node.thematic_elements})
        symbol_matches ==
            Cardinality({sy \in patterns.symbols : Contains(node.description, sy)})
        char_type_matches ==
            Cardinality({ct \in patterns.character_types :
                            \E sl \in ActionSlots(node) :
                                Contains(ActionAt(node, sl).action_text, ct)})
    IN QDivInt(QAdd(QAdd(QMul(Q(theme_matches, 1), Q(4, 10)),
                         QMul(Q(symbol_matches, 1), Q(3, 10))),
                    QMul(Q(char_type_matches, 1), Q(3, 10))),
               Cardinality(patterns.themes) + Cardinality(patterns.symbols)
                   + Cardinality(patterns.character_types))

\* a style resonance returned without the final min(..., 1.0)
_analyze_melville_resonance_unclamped(nodes) ==
    LET pairs == (1..Len(nodes)) \X DOMAIN melville_works
        total_resonance ==
            QSum([pr \in pairs |-> WorkResonance(nodes[pr[1]], melville_works[pr[2]])], pairs)
    IN QDivInt(total_resonance, Cardinality(DOMAIN melville_works))

\* NarrativeOntologyBuilder._analyze_melville_resonance: the work resonances of all
\* nodes are summed, divided by the number of works and cut at 1.0
_analyze_melville_resonance(nodes) ==
    LET pairs == (1..Len(nodes)) \X DOMAIN melville_works
        total_resonance ==
            QSum([pr \in pairs |-> WorkResonance(nodes[pr[1]], melville_works[pr[2]])], pairs)
    IN QMin(QDivInt(total_resonance, Cardinality(DOMAIN melville_works)), One)

\* max(similarities.values()) of a non-empty dict
MaxValue(similarities) ==
    CHOOSE v \in {similarities[b] : b \in DOMAIN similarities} :
        \A b \in DOMAIN similarities : QLeq(similarities[b], v)

\* max(len(d), 1)
AtLeastOne(n) == IF n < 1 THEN 1 ELSE n

\* NarrativeOntologyBuilder._calculate_canonical_fidelity
_calculate_canonical_fidelity(element_mappings, archetypal_shifts, melville_resonance) ==
    LET element_fidelity ==
            QDivInt(QSum([e \in DOMAIN element_mappings |->
                             IF DOMAIN element_mappings[e] # {}
                             THEN MaxValue(element_mappings[e]) ELSE Zero],
                         DOMAIN element_mappings),
                    AtLeastOne(Cardinality(DOMAIN element_mappings)))
        pattern_fidelity ==
            QSub(One,
                 QDivInt(QSum([p \in DOMAIN archetypal_shifts |-> QAbs(archetypal_shifts[p])],
                              DOMAIN archetypal_shifts),
                         AtLeastOne(Cardinality(DOMAIN archetypal_shifts))))
    IN QAdd(QAdd(QMul(element_fidelity, Q(5, 10)), QMul(pattern_fidelity, Q(2, 10))),
            QMul(melville_resonance, Q(3, 10)))

\* NarrativeOntologyBuilder._calculate_archetypal_shifts: a reference id without a
\* stored profile is read as the empty profile (canonical_patterns.get(id, {}))
_calculate_archetypal_shifts(self, canonical_id, variant_patterns) ==
    LET profile == Get(self.canonical_patterns, canonical_id, Empty)
    IN [p \in DOMAIN profile \cup DOMAIN variant_patterns |->
           QSub(Get(variant_patterns, p, Zero), Get(profile, p, Zero))]

\* NarrativeOntologyBuilder._calculate_structural_similarities: three placeholders
_calculate_structural_similarities ==
    [k \in {"character_network", "thematic_structure", "narrative_progression"} |-> Q(1, 2)]

\* lines 168-187 of analyze_variant: the mapping as it is completed and stored once
\* the elements are extracted (none, without nodes) and the mapping object exists
CompletedMapping(self, variant_nodes, variant_id, canonical_id) ==
    Only({[base_text_id |-> canonical_id, variant_id |-> variant_id,
           element_mappings |-> Empty,
           structural_similarities |-> _calculate_structural_similarities,
           archetypal_shifts |-> archetypal_shifts,
           canonical_fidelity |->
               _calculate_canonical_fidelity(Empty, archetypal_shifts, melville_resonance),
           frye_patterns |-> Empty] :
            archetypal_shifts \in
                {_calculate_archetypal_shifts(self, canonical_id,
                                              excavate_patterns(variant_nodes))},
            melville_resonance \in {_analyze_melville_resonance(variant_nodes)}})

\* self.mappings[variant_id] = mapping
Stored(stored, variant_id, mapping) ==
    [v \in DOMAIN stored \cup {variant_id} |-> IF v = variant_id THEN mapping ELSE stored[v]]

\* an analysis that builds and stores the mapping whatever the reference id is
analyze_variant_defaulting(self, variant_nodes, variant_id, canonical_id) ==
    Only({[raised |-> FALSE, result |-> mapping,
           mappings |-> Stored(self.mappings, variant_id, mapping)] :
            mapping \in {CompletedMapping(self, variant_nodes, variant_id, canonical_id)}})

\* NarrativeOntologyBuilder.analyze_variant: logs and re-raises any exception; stores
\* the mapping under variant_id only when nothing raised. self holds the fields of
\* the builder (elements, canonical_patterns, mappings)
analyze_variant(self, variant_nodes, variant_id, canonical_id) ==
    IF ExtractElementsRaises(variant_nodes) \/ CreateMappingRaises
    THEN [raised |-> TRUE, result |-> None, mappings |-> self.mappings]
    ELSE Only({[raised |-> FALSE, result |-> mapping,
                mappings |-> Stored(self.mappings, variant_id, mapping)] :
                 mapping \in {CompletedMapping(self, variant_nodes, variant_id,
                                               canonical_id)}})

\* NarrativeOntologyBuilder.register_canonical_text: the pattern profile is stored
\* before the elements are extracted, so it stays when the extraction raises; the
\* exception is logged and re-raised. Without nodes there is no element to store
register_canonical_text(self, text_id, nodes) ==
    [raised |-> ExtractElementsRaises(nodes),
     canonical_patterns |->
         [t \in DOMAIN self.canonical_patterns \cup {text_id} |->
             IF t = text_id THEN excavate_patterns(nodes) ELSE self.canonical_patterns[t]],
     elements |-> self.elements]

\* -- Frye patterns (narrative_ontology.py, lines 88-261) --

\* a FryeanPattern (lines 18-28); resonance has the default 0.0
FryeanPattern(mythos, character_types, plot_movements, symbols, thematic_elements, typical_conflicts) ==
    [thematic_elements |-> thematic_elements, symbols |-> symbols, resonance |-> Zero,
     character_types |-> character_types, mythos |-> mythos,
     plot_movements |-> plot_movements, typical_conflicts |-> typical_conflicts,
     phase |-> 1]

\* the members of FryeMythos in definition order, the order of the catalogue's keys
FryeMythos == <<"comedy", "romance", "tragedy", "irony">>

\* NarrativeOntologyBuilder._initialize_frye_patterns: mythos -> list of patterns
_initialize_frye_patterns ==
    [m \in {FryeMythos[i] : i \in 1..Len(FryeMythos)} |->
        CASE m = "comedy" ->
               <<FryeanPattern(m, {"helper", "young lover", "blocking figure"},
                               <<"obstacles to union", "recognition", "festive conclusion">>,
                               {"spring", "garden", "festival", "marriage"},
                               {"renewal", "reconciliation", "harmony"},
                               <<<<"youth", "age">>, <<"freedom", "society">>>>)>>
          [] m = "romance" ->
               <<FryeanPattern(m, {"antagonist", "hero", "companion"},
                               <<"quest", "journey", "triumph">>,
                               {"sword", "holy grail", "magical weapon"},
                               {"adventure", "idealism", "victory"},
                               <<<<"good", "evil">>, <<"order", "chaos">>>>)>>
          [] m = "tragedy" ->
               <<FryeanPattern(m, {"nemesis", "chorus", "tragic hero"},
                               <<"hubris", "fall", "recognition">>,
                               {"autumn", "sunset", "storm"},
                               {"pride", "fate", "justice"},
                               <<<<"individual", "fate">>, <<"ambition", "limitation">>>>)>>
          [] OTHER ->
               <<FryeanPattern(m, {"society", "anti-hero", "victim"},
                               <<"alienation", "absurdity", "cyclic return">>,
                               {"darkness", "winter", "maze"},
                               {"limitation", "absurdity", "disillusionment"},
                               <<<<"illusion", "reality">>, <<"individual", "society">>>>)>>]

\* "term.lower() in text.lower()" of lines 235 and 242 is a substring test: a text
\* is the set of the phrases written in it, and of the phrases of the model only
\* "hero" lies inside other ones
Within(term, phrase) ==
    term = phrase \/ (term = "hero" /\ phrase \in {"tragic hero", "anti-hero"})

InText(text, term) == \E phrase \in text : Within(term, phrase)

\* line 246 raises (TypeError: None is not iterable) on a node without a theme map
PatternResonanceFails(pattern, nodes) ==
    /\ pattern.thematic_elements # {}
    /\ \E i \in 1..Len(nodes) : NoThemeMap(nodes[i])

\* the resonance of one node (lines 232-253)
NodeResonance(pattern, node) ==
    LET texts == {ActionAt(node, sl).action_text : sl \in ActionSlots(node)}
        character_match ==
            Cardinality({c \in pattern.character_types : \E text \in texts : InText(text, c)})
        character_score == IF pattern.character_types # {}
                           THEN Q(character_match, Cardinality(pattern.character_types))
                           ELSE Zero
        symbol_match == Cardinality({s \in pattern.symbols : InText(node.description, s)})
        symbol_score == IF pattern.symbols # {}
                        THEN Q(symbol_match, Cardinality(pattern.symbols))
                        ELSE Zero
        theme_match == Cardinality(pattern.thematic_elements \cap DOMAIN node.thematic_elements)
        theme_score == IF pattern.thematic_elements # {}
                       THEN Q(theme_match, Cardinality(pattern.thematic_elements))
                       ELSE Zero
    IN QAdd(QAdd(QMul(character_score, Q(4, 10)), QMul(symbol_score, Q(3, 10))),
            QMul(theme_score, Q(3, 10)))

\* a pattern resonance that adds the node resonances up without averaging them
_calculate_pattern_resonance_summed(pattern, nodes) ==
    IF nodes = Empty \/ PatternResonanceFails(pattern, nodes) THEN Zero
    ELSE QSum([i \in 1..Len(nodes) |-> NodeResonance(pattern, nodes[i])], 1..Len(nodes))

\* NarrativeOntologyBuilder._calculate_pattern_resonance
_calculate_pattern_resonance(pattern, nodes) ==
    IF nodes = Empty \/ PatternResonanceFails(pattern, nodes) THEN Zero
    ELSE QDivInt(QSum([i \in 1..Len(nodes) |-> NodeResonance(pattern, nodes[i])],
                      1..Len(nodes)),
                 Len(nodes))

\* list.sort(key=resonance, reverse=True) of line 220: a stable sort, patterns of
\* equal resonance keep their order
RECURSIVE SortByResonance(_)
SortByResonance(patterns) ==
    IF patterns = Empty THEN Empty
    ELSE LET last == patterns[Len(patterns)]
             sorted == SortByResonance(SubSeq(patterns, 1, Len(patterns) - 1))
             before == SelectSeq(sorted, LAMBDA p : QLeq(last.resonance, p.resonance))
             after == SelectSeq(sorted, LAMBDA p : QLess(p.resonance, last.resonance))
         IN before \o <<last>> \o after

\* the patterns of the catalogue in iteration order (lines 203-204)
RECURSIVE CatalogueList(_, _)
CatalogueList(catalogue, i) ==
    IF i > Len(FryeMythos) THEN Empty
    ELSE catalogue[FryeMythos[i]] \o CatalogueList(catalogue, i + 1)

\* an analysis that records the resonance in the catalogue pattern itself and
\* returns that pattern instead of a copy
_analyze_frye_patterns_inplace(catalogue, nodes) ==
    LET measured(pattern) ==
            [pattern EXCEPT !.resonance = _calculate_pattern_resonance(pattern, nodes)]
        all == CatalogueList(catalogue, 1)
        active == SelectSeq([i \in 1..Len(all) |-> measured(all[i])],
                            LAMBDA p : QLess(Q(3, 10), p.resonance))
    IN [result |-> SortByResonance(active),
        frye_patterns |->
            [m \in DOMAIN catalogue |->
                [i \in 1..Len(catalogue[m]) |->
                    IF QLess(Q(3, 10), measured(catalogue[m][i]).resonance)
                    THEN measured(catalogue[m][i]) ELSE catalogue[m][i]]]]

\* NarrativeOntologyBuilder._analyze_frye_patterns: the list returned and the
\* catalogue afterwards; each returned pattern is a new object with copies of the
\* catalogue pattern's collections, so the catalogue is not written
_analyze_frye_patterns(catalogue, nodes) ==
    LET measured(pattern) ==
            [pattern EXCEPT !.resonance = _calculate_pattern_resonance(pattern, nodes)]
        all == CatalogueList(catalogue, 1)
        active == SelectSeq([i \in 1..Len(all) |-> measured(all[i])],
                            LAMBDA p : QLess(Q(3, 10), p.resonance))
    IN [result |-> SortByResonance(active), frye_patterns |-> catalogue]

---------------------------------------------------------------------------
(* timeline_validator.py: TimelineConsistencyValidator *)

\* TimelineConsistencyValidator.thematic_weights
thematic_weights ==
    [t \in {"isolation", "obsession", "nature", "revenge", "fate", "friendship"} |->
        CASE t = "revenge" -> Q(8, 10)
          [] t = "obsession" -> Q(9, 10)
          [] t = "isolation" -> Q(7, 10)
          [] t = "friendship" -> Q(6, 10)
          [] t = "fate" -> Q(8, 10)
          [] OTHER -> Q(7, 10)]

\* TimelineConsistencyValidator._get_all_nodes: the placeholder yields nothing
_get_all_nodes == Empty

\* the active pattern ids the library knows (archetypal_patterns.get(pattern_id) is truthy)
KnownActive(patterns) == DOMAIN patterns \cap DOMAIN archetypal_patterns

\* TimelineConsistencyValidator._validate_pattern_consistency
_validate_pattern_consistency(patterns, next_node) ==
    IF DOMAIN patterns = {} THEN One
    ELSE LET chars == next_node.characters_present
             theme_score(p) ==
                 LET core == archetypal_patterns[p].core_themes
                     theme_match == Cardinality({t \in core : t \in DOMAIN next_node.thematic_elements})
                 IN IF core # {} THEN Q(theme_match, Cardinality(core)) ELSE One
             role_score(p) ==
                 LET role_match == Cardinality({i \in 1..Len(chars) :
                                        chars[i] \in DOMAIN archetypal_patterns[p].character_roles})
                 IN IF chars # Empty THEN Q(role_match, Len(chars)) ELSE One
             score(p) == QMul(QAdd(QMul(theme_score(p), Q(6, 10)), QMul(role_score(p), Q(4, 10))),
                              patterns[p])
             scored == KnownActive(patterns)
         IN IF scored # {}
            THEN QDivInt(QSum([p \in scored |-> score(p)], scored), Cardinality(scored))
            ELSE One

\* a thematic drift averaged over the themes of the two beats only, without the
\* core themes of the active patterns (lines 184-187 left out)
_calculate_thematic_drift_beats_only(current_themes, next_themes, patterns) ==
    LET known == KnownActive(patterns)
        all_themes == DOMAIN current_themes \cup DOMAIN next_themes
        weight(theme) ==
            LET boosting == {p \in known : theme \in archetypal_patterns[p].core_themes}
            IN QMul(Get(thematic_weights, theme, Q(5, 10)),
                    QProd([p \in boosting |-> QAdd(One, patterns[p])], boosting))
        drift(theme) ==
            QMul(QAbs(QSub(Get(current_themes, theme, Zero), Get(next_themes, theme, Zero))),
                 weight(theme))
        total_drift == QSum([t \in all_themes |-> drift(t)], all_themes)
        total_weight == QSum([t \in all_themes |-> weight(t)], all_themes)
    IN IF QLess(Zero, total_weight) THEN QDiv(total_drift, total_weight) ELSE Zero

\* TimelineConsistencyValidator._calculate_thematic_drift
_calculate_thematic_drift(current_themes, next_themes, patterns) ==
    LET known == KnownActive(patterns)
        all_themes == DOMAIN current_themes \cup DOMAIN next_themes
                      \cup UNION {archetypal_patterns[p].core_themes : p \in known}
        weight(theme) ==
            LET boosting == {p \in known : theme \in archetypal_patterns[p].core_themes}
            IN QMul(Get(thematic_weights, theme, Q(5, 10)),
                    QProd([p \in boosting |-> QAdd(One, patterns[p])], boosting))
        drift(theme) ==
            QMul(QAbs(QSub(Get(current_themes, theme, Zero), Get(next_themes, theme, Zero))),
                 weight(theme))
        total_drift == QSum([t \in all_themes |-> drift(t)], all_themes)
        total_weight == QSum([t \in all_themes |-> weight(t)], all_themes)
    IN IF QLess(Zero, total_weight) THEN QDiv(total_drift, total_weight) ELSE Zero

\* a drift update whose factor off the canon is 1.5 instead of 1.3
_update_canonical_drift_steeper(current_drift, is_canonical_node, thematic_drift, pattern_consistency) ==
    LET drift_factor == IF is_canonical_node THEN Q(7, 10) ELSE Q(15, 10)
        pattern_factor == QSub(One, pattern_consistency)
        new_drift == QAdd(QAdd(QMul(QMul(current_drift, drift_factor), Q(4, 10)),
                               QMul(thematic_drift, Q(3, 10))),
                          QMul(pattern_factor, Q(3, 10)))
    IN QMin(QMax(new_drift, Zero), One)

\* a drift update with the two drift factors exchanged (0.7 off the canon, 1.3 on it)
_update_canonical_drift_swapped(current_drift, is_canonical_node, thematic_drift, pattern_consistency) ==
    LET drift_factor == IF is_canonical_node THEN Q(13, 10) ELSE Q(7, 10)
        pattern_factor == QSub(One, pattern_consistency)
        new_drift == QAdd(QAdd(QMul(QMul(current_drift, drift_factor), Q(4, 10)),
                               QMul(thematic_drift, Q(3, 10))),
                          QMul(pattern_factor, Q(3, 10)))
    IN QMin(QMax(new_drift, Zero), One)

\* a drift update that adds to the whole previous drift and returns the sum as it is
_update_canonical_drift_unclamped(current_drift, is_canonical_node, thematic_drift, pattern_consistency) ==
    LET drift_factor == IF is_canonical_node THEN Q(7, 10) ELSE Q(13, 10)
        pattern_factor == QSub(One, pattern_consistency)
    IN QAdd(QAdd(QMul(current_drift, drift_factor),
                 QMul(thematic_drift, Q(3, 10))),
            QMul(pattern_factor, Q(3, 10)))

\* TimelineConsistencyValidator._update_canonical_drift
_update_canonical_drift(current_drift, is_canonical_node, thematic_drift, pattern_consistency) ==
    LET drift_factor == IF is_canonical_node THEN Q(7, 10) ELSE Q(13, 10)
        pattern_factor == QSub(One, pattern_consistency)
        new_drift == QAdd(QAdd(QMul(QMul(current_drift, drift_factor), Q(4, 10)),
                               QMul(thematic_drift, Q(3, 10))),
                          QMul(pattern_factor, Q(3, 10)))
    IN QMin(QMax(new_drift, Zero), One)

\* TimelineConsistencyValidator._is_near_ending: the stub returns False for every node
_is_near_ending(node) == FALSE


\* the triple validate_story_progression returns
Triple(accepted, drift, reason) == [accepted |-> accepted, drift |-> drift, reason |-> reason]

\* line 107: "not current_state.available_actions"
NoActions(current_state) == current_state.available_actions = Empty

\* a no-actions return that starts the drift afresh ("return True, 0.0, ...")
NoActionsResult_reset(current_state) == Triple(TRUE, Zero, "No actions available")

\* line 108: the triple returned for a state without available actions
NoActionsResult(current_state) ==
    Triple(TRUE, current_state.canonical_drift, "No actions available")

\* a connectivity test that rejects only a beat without an id ("if not next_node.id")
Connected_unchecked(current_state, next_node) == next_node.id # ""

\* line 110: next_node.id in current_state.available_actions[0].consequences
Connected(current_state, next_node) ==
    InList(next_node.id, current_state.available_actions[1].consequences)

\* line 114: "not self.active_patterns" (an empty dict is falsy)
MustExcavate(patterns) == DOMAIN patterns = {}

\* line 120: "if self.current_variant_id" (None and the empty string are falsy)
VariantSet(variant_id) == variant_id # NoVariant /\ variant_id # ""

\* a consistency test with the threshold 0.04
BreaksConsistency_lowered(pattern_consistency) == QLess(pattern_consistency, Q(4, 100))

\* line 128: pattern_consistency < 0.4
BreaksConsistency(pattern_consistency) == QLess(pattern_consistency, Q(4, 10))

\* an ending test that rejects on the drift alone ("or" for "and")
TooFarFromEnding_either(new_canonical_drift, next_node) ==
    QLess(Q(8, 10), new_canonical_drift) \/ _is_near_ending(next_node)

\* line 147: new_canonical_drift > 0.8 and self._is_near_ending(next_node)
TooFarFromEnding(new_canonical_drift, next_node) ==
    QLess(Q(8, 10), new_canonical_drift) /\ _is_near_ending(next_node)

\* the lazy excavation hoisted above the early returns
NoExcavation_hoisted(self) ==
    [raised |-> FALSE, ran |-> MustExcavate(self.active_patterns),
     active_patterns |-> IF MustExcavate(self.active_patterns)
                         THEN excavate_patterns(_get_all_nodes)
                         ELSE self.active_patterns,
     narrative_depth |-> self.narrative_depth,
     mappings |-> self.mappings]

\* the validator's fields as they are when no excavation is made
NoExcavation(self) ==
    [raised |-> FALSE, ran |-> FALSE,
     active_patterns |-> self.active_patterns,
     narrative_depth |-> self.narrative_depth,
     mappings |-> self.mappings]

\* lines 114-124: the lazy excavation; both fields are assigned before the
\* ontology analysis is made, so they keep their new values when it raises
ExcavationStep(self) ==
    IF ~MustExcavate(self.active_patterns) THEN NoExcavation(self)
    ELSE LET all_nodes == _get_all_nodes
             analysis == IF VariantSet(self.current_variant_id)
                         THEN analyze_variant(self, all_nodes, self.current_variant_id,
                                              "moby_dick_original")
                         ELSE [raised |-> FALSE, mappings |-> self.mappings]
         IN [raised |-> analysis.raised, ran |-> TRUE,
             active_patterns |-> excavate_patterns(all_nodes),
             narrative_depth |-> analyze_narrative_depth(all_nodes),
             mappings |-> analysis.mappings]

\* how the body of the try block ends: by an exception (exc) or by returning result,
\* with the validator fields the excavation step left
Ends(exc, result, ex) ==
    [exc |-> exc, result |-> result, ran |-> ex.ran,
     active_patterns |-> ex.active_patterns,
     narrative_depth |-> ex.narrative_depth,
     mappings |-> ex.mappings]

\* lines 146-150: the ending check and the returned triple
EndingStep(next_node, ex, new_canonical_drift) ==
    IF TooFarFromEnding(new_canonical_drift, next_node)
    THEN Ends(FALSE,
              Triple(FALSE, new_canonical_drift, "Story diverged too far from canonical ending"),
              ex)
    ELSE Ends(FALSE, Triple(TRUE, new_canonical_drift, "Valid progression"), ex)

\* lines 138-150: the drift update, from the thematic drift on
DriftStep(self, current_state, next_node, ex, pattern_consistency, thematic_drift) ==
    Only({EndingStep(next_node, ex, new_canonical_drift) :
            new_canonical_drift \in
               {_update_canonical_drift(current_state.canonical_drift,
                                        next_node.id \in self.canonical_nodes,
                                        thematic_drift, pattern_consistency)}})

\* lines 126-150: from the consistency check on, with the validator fields ex that
\* the excavation step left
ConsistencyStep(self, current_state, next_node, ex, pattern_consistency) ==
    IF BreaksConsistency(pattern_consistency)
    THEN Ends(FALSE, Triple(FALSE, One, "Progression breaks archetypal pattern consistency"), ex)
    ELSE Only({DriftStep(self, current_state, next_node, ex, pattern_consistency, thematic_drift) :
                 thematic_drift \in
                    {_calculate_thematic_drift(current_state.active_themes,
                                               next_node.thematic_elements,
                                               ex.active_patterns)}})

\* lines 113-150: from the lazy excavation on
AfterExcavation(self, current_state, next_node, ex) ==
    IF ex.raised THEN Ends(TRUE, None, ex)
    ELSE Only({ConsistencyStep(self, current_state, next_node, ex, pattern_consistency) :
                 pattern_consistency \in
                    {_validate_pattern_consistency(ex.active_patterns, next_node)}})

\* lines 103-150: the body of the try block of validate_story_progression
TryBody(self, current_state, next_node) ==
    IF current_state = None
    THEN Ends(FALSE, Triple(FALSE, One, "Invalid state: Story state not initialized"),
              NoExcavation(self))
    ELSE IF NoActions(current_state)
    THEN Ends(FALSE, NoActionsResult(current_state), NoExcavation(self))
    ELSE IF next_node = None
    THEN Ends(TRUE, None, NoExcavation(self))      \* next_node.id: AttributeError
    ELSE IF ~Connected(current_state, next_node)
    THEN Ends(FALSE, Triple(FALSE, One, "Invalid story progression - nodes not connected"),
              NoExcavation(self))
    ELSE Only({AfterExcavation(self, current_state, next_node, ex) :
                 ex \in {ExcavationStep(self)}})

\* a method without the except clause: the exception of the body reaches the caller
Guarded_propagating(body) ==
    [raised |-> body.exc, result |-> body.result]

\* lines 152-154: "except Exception" turns any exception of the body into a triple
Guarded(body) ==
    [raised |-> FALSE,
     result |-> IF body.exc THEN Triple(FALSE, One, "Validation error") ELSE body.result]

\* a method that stores the new drift in the state it was given when it accepts
ArgumentsAfter_writeback(current_state, next_node, result) ==
    [current_state |-> IF current_state # None /\ result.accepted
                       THEN [current_state EXCEPT !.canonical_drift = result.drift]
                       ELSE current_state,
     next_node |-> next_node]

\* a method that takes the chosen action off the state's list when it accepts
ArgumentsAfter_consuming(current_state, next_node, result) ==
    [current_state |-> IF current_state # None /\ result.accepted
                          /\ current_state.available_actions # Empty
                       THEN [current_state EXCEPT !.available_actions = Tail(@)]
                       ELSE current_state,
     next_node |-> next_node]

\* the arguments as the call leaves them: the method assigns to no attribute of
\* current_state or next_node
ArgumentsAfter(current_state, next_node, result) ==
    [current_state |-> current_state, next_node |-> next_node]

\* TimelineConsistencyValidator.validate_story_progression (the second definition,
\* lines 100-154, which replaces the identical first one)
validate_story_progression(self, current_state, next_node) ==
    Only({[raised |-> Guarded(body).raised, result |-> Guarded(body).result,
           ran |-> body.ran,
           active_patterns |-> body.active_patterns,
           narrative_depth |-> body.narrative_depth,
           mappings |-> body.mappings,
           state_after |-> ArgumentsAfter(current_state, next_node,
                                          Guarded(body).result).current_state,
           node_after |-> ArgumentsAfter(current_state, next_node,
                                         Guarded(body).result).next_node] :
            body \in {TryBody(self, current_state, next_node)}})

---------------------------------------------------------------------------
(* villa_diodati/vr_system.py: VRSystem *)

\* VRSuitStatus
AVAILABLE == "available"
IN_USE == "in_use"
CHARGING == "charging"

\* VRSuit.assigned_to of a suit nobody wears: None in an Optional[str]
Unassigned == "None"

\* VRSystem.suits after __init__ (lines 34-83), by the fields the operations write
VRSystemSuits ==
    [s \in {"byron_suit", "mary_suit", "percy_suit", "melville_suit", "austen_suit",
            "bronte_suit"} |->
        [assigned_to |-> Unassigned, status |-> AVAILABLE, charge_level |-> 100]]

\* the keys of VRSystem.novel_environments (lines 89-120)
novel_environments ==
    {"moby_dick", "frankenstein", "prometheus_unbound", "pride_and_prejudice", "emma",
     "wuthering_heights"}

\* f"{persona.split('_')[0]}_suit" of line 124, on the personas of the model
SuitIdOf(persona) ==
    CASE persona = "byron" -> "byron_suit"
      [] persona = "mary" -> "mary_suit"
      [] OTHER -> "keats_suit"

\* VRSystem.suit_up: the result and the suits afterwards
suit_up(self_suits, persona) ==
    LET suit_id == SuitIdOf(persona)
    IN IF suit_id \notin DOMAIN self_suits
       THEN [status |-> "error", suit_id |-> suit_id, suits |-> self_suits]
       ELSE IF self_suits[suit_id].status # AVAILABLE
       THEN [status |-> "error", suit_id |-> suit_id, suits |-> self_suits]
       ELSE [status |-> "success", suit_id |-> suit_id,
             suits |-> [self_suits EXCEPT ![suit_id].assigned_to = persona,
                                          ![suit_id].status = IN_USE]]

\* the loop of lines 153-160 from participant i on: the first failing suit_up ends
\* the call with what the earlier ones left
RECURSIVE SuitUpAll(_, _, _, _)
SuitUpAll(self_suits, participants, i, suited_participants) ==
    IF i > Len(participants)
    THEN [status |-> "success", suits |-> self_suits,
          suited_participants |-> suited_participants]
    ELSE LET suit_result == suit_up(self_suits, participants[i])
         IN IF suit_result.status = "error"
            THEN [status |-> "error", suits |-> suit_result.suits,
                  suited_participants |-> suited_participants]
            ELSE SuitUpAll(suit_result.suits, participants, i + 1,
                           Append(suited_participants,
                                  [persona |-> participants[i],
                                   suit |-> suit_result.suit_id]))

\* VRSystem.start_mission: the result status, the suits and the missions afterwards
start_mission(self, mission_name, novel, participants) ==
    IF novel \notin novel_environments
    THEN [status |-> "error", suits |-> self.suits,
          active_missions |-> self.active_missions]
    ELSE LET suited == SuitUpAll(self.suits, participants, 1, Empty)
             mission == [novel |-> novel, participants |-> suited.suited_participants,
                         status |-> "active"]
         IN IF suited.status = "error"
            THEN [status |-> "error", suits |-> suited.suits,
                  active_missions |-> self.active_missions]
            ELSE [status |-> "success", suits |-> suited.suits,
                  active_missions |->
                      [m \in DOMAIN self.active_missions \cup {mission_name} |->
                          IF m = mission_name THEN mission ELSE self.active_missions[m]]]

\* the suits after the release loop of lines 217-221 from participant i on
RECURSIVE Released(_, _, _, _)
Released(self_suits, participants, i, status) ==
    IF i > Len(participants) THEN self_suits
    ELSE LET charge == self_suits[participants[i].suit].charge_level - 20
         IN Released([self_suits EXCEPT ![participants[i].suit] =
                         [assigned_to |-> Unassigned, status |-> status,
                          charge_level |-> IF charge > 0 THEN charge ELSE 0]],
                     participants, i + 1, status)

\* an end of mission that hands the suits back ready for use
end_mission_recycling(self, mission_name) ==
    IF mission_name \notin DOMAIN self.active_missions
    THEN [status |-> "error", suits |-> self.suits,
          active_missions |-> self.active_missions]
    ELSE [status |-> "success",
          suits |-> Released(self.suits, self.active_missions[mission_name].participants,
                             1, AVAILABLE),
          active_missions |->
              [m \in DOMAIN self.active_missions \ {mission_name} |->
                  self.active_missions[m]]]

\* VRSystem.end_mission
end_mission(self, mission_name) ==
    IF mission_name \notin DOMAIN self.active_missions
    THEN [status |-> "error", suits |-> self.suits,
          active_missions |-> self.active_missions]
    ELSE [status |-> "success",
          suits |-> Released(self.suits, self.active_missions[mission_name].participants,
                             1, CHARGING),
          active_missions |->
              [m \in DOMAIN self.active_missions \ {mission_name} |->
                  self.active_missions[m]]]

---------------------------------------------------------------------------
(* villa_diodati/villa_core.py: VillaDiodati *)

\* a Room of villa_core.py, by the fields the operations read or write
CoreRoom(current_occupants, max_occupants, connected_rooms) ==
    [current_occupants |-> current_occupants, max_occupants |-> max_occupants,
     connected_rooms |-> connected_rooms]

\* VillaDiodati.persona_locations after __init__ (lines 28-35)
VillaCoreLocations ==
    [p \in {"lord_byron", "mary_shelley", "percy_shelley", "herman_melville",
            "jane_austen", "emily_bronte"} |->
        CASE p = "lord_byron" -> "byron_study"
          [] p = "mary_shelley" -> "mary_chamber"
          [] p = "percy_shelley" -> "library"
          [] p = "herman_melville" -> "lake_view"
          [] p = "jane_austen" -> "main_salon"
          [] OTHER -> "garden"]

\* VillaDiodati.rooms after __init__ (lines 37-139)
VillaCoreRooms ==
    [r \in {"garden", "byron_study", "mary_chamber", "library", "lake_view", "main_salon",
            "conservatory", "upper_hall", "study_corridor", "garden_entrance"} |->
        CASE r = "main_salon" ->
               CoreRoom({"jane_austen"}, 8, <<"library", "dining_room", "garden_entrance">>)
          [] r = "library" ->
               CoreRoom({"percy_shelley"}, 4, <<"main_salon", "study_corridor">>)
          [] r = "garden" ->
               CoreRoom({"emily_bronte"}, 10, <<"garden_entrance", "lake_view", "conservatory">>)
          [] r = "lake_view" -> CoreRoom({"herman_melville"}, 3, <<"garden">>)
          [] r = "byron_study" ->
               CoreRoom({"lord_byron"}, 2, <<"study_corridor", "byron_chamber">>)
          [] r = "mary_chamber" ->
               CoreRoom({"mary_shelley"}, 2, <<"upper_hall", "mary_study">>)
          [] r = "conservatory" -> CoreRoom({}, 4, <<"garden", "upper_hall">>)
          [] r = "upper_hall" ->
               CoreRoom({}, 6, <<"mary_chamber", "byron_chamber", "conservatory",
                                 "study_corridor">>)
          [] r = "study_corridor" ->
               CoreRoom({}, 4, <<"library", "byron_study", "upper_hall">>)
          [] OTHER -> CoreRoom({}, 4, <<"main_salon", "garden">>)]

\* a move that does not look at the occupancy of the target room
move_persona_unchecked(self, persona, target_room) ==
    IF target_room \notin DOMAIN self.rooms
    THEN [status |-> "error", rooms |-> self.rooms,
          persona_locations |-> self.persona_locations]
    ELSE IF persona \notin DOMAIN self.persona_locations
            \/ persona \notin
                  self.rooms[self.persona_locations[persona]].current_occupants
    THEN [status |-> "raised", rooms |-> self.rooms,
          persona_locations |-> self.persona_locations]
    ELSE LET current_room == self.persona_locations[persona]
             removed == [self.rooms EXCEPT ![current_room].current_occupants = @ \ {persona}]
         IN [status |-> "success",
             rooms |-> [removed EXCEPT ![target_room].current_occupants = @ \cup {persona}],
             persona_locations |->
                 [self.persona_locations EXCEPT ![persona] = target_room]]

\* villa_core.VillaDiodati.move_persona: the result status, the rooms and the
\* locations afterwards; "raised" is the KeyError of line 150 for a persona without
\* a location or of line 151 for one that is not among the occupants of its room
move_persona(self, persona, target_room) ==
    IF target_room \notin DOMAIN self.rooms
    THEN [status |-> "error", rooms |-> self.rooms,
          persona_locations |-> self.persona_locations]
    ELSE IF Cardinality(self.rooms[target_room].current_occupants)
               >= self.rooms[target_room].max_occupants
    THEN [status |-> "error", rooms |-> self.rooms,
          persona_locations |-> self.persona_locations]
    ELSE IF persona \notin DOMAIN self.persona_locations
            \/ persona \notin
                  self.rooms[self.persona_locations[persona]].current_occupants
    THEN [status |-> "raised", rooms |-> self.rooms,
          persona_locations |-> self.persona_locations]
    ELSE LET current_room == self.persona_locations[persona]
             removed == [self.rooms EXCEPT ![current_room].current_occupants = @ \ {persona}]
         IN [status |-> "success",
             rooms |-> [removed EXCEPT ![target_room].current_occupants = @ \cup {persona}],
             persona_locations |->
                 [self.persona_locations EXCEPT ![persona] = target_room]]

---------------------------------------------------------------------------
(* scenes/tag_game.py: TagGame, played in the villa of villa_core.py *)

\* the order in which persona_locations is iterated: the insertion order of
\* villa_core.py lines 28-35, which no assignment to an existing key changes
PersonaOrder ==
    <<"lord_byron", "mary_shelley", "percy_shelley", "herman_melville", "jane_austen",
      "emily_bronte">>

\* the players of start_game in the order they are moved (lines 20-21)
players ==
    <<"lord_byron", "mary_shelley", "percy_shelley", "jane_austen", "emily_bronte",
      "herman_melville">>

\* TagGame.safe_zones (line 14)
safe_zones == {"library", "control_room"}

\* the game: the villa it holds a reference to, and who is "it"
Game(villa_rooms, villa_locations, it) ==
    [rooms |-> villa_rooms, persona_locations |-> villa_locations, it_persona |-> it]

\* the members of a list
Members(list) == {list[i] : i \in DOMAIN list}

\* list.remove(x) for a list that holds x: the list without the first x
ListRemove(list, x) ==
    LET i == CHOOSE k \in DOMAIN list : list[k] = x /\ \A j \in 1..(k - 1) : list[j] # x
    IN SubSeq(list, 1, i - 1) \o SubSeq(list, i + 1, Len(list))

\* the first room of a list, from position i on, that is in a collection; "None"
\* when the loop ends without return
RECURSIVE FirstIn(_, _, _)
FirstIn(list, i, collection) ==
    IF i > Len(list) THEN "None"
    ELSE IF list[i] \in collection THEN list[i]
    ELSE FirstIn(list, i + 1, collection)

\* the rooms a persona prefers to hide in (lines 65-81)
Preferences(persona) ==
    CASE persona = "emily_bronte" -> <<"bronte_tower", "tower_study", "tower_balcony">>
      [] persona = "jane_austen" -> <<"conservatory", "main_salon">>
      [] persona = "mary_shelley" -> <<"mary_chamber", "control_room">>
      [] OTHER -> <<>>

\* TagGame.start_game: every player is moved to the garden and lord_byron is "it"
RECURSIVE start_game(_, _)
start_game(self, i) ==
    IF i > Len(players) THEN [self EXCEPT !.it_persona = "lord_byron"]
    ELSE LET moved == move_persona(self, players[i], "garden")
         IN start_game(Game(moved.rooms, moved.persona_locations, self.it_persona), i + 1)

\* TagGame.choose_strategic_move for a game with an "it": every room the call can
\* return, each with the rooms of the villa afterwards. get_available_moves returns
\* the connected_rooms list of the persona's room itself (line 42), so the remove of
\* line 62 takes the room of "it" out of that room's connected_rooms; random.choice
\* (line 84) can return any of the rooms left
choose_strategic_move(self, persona) ==
    LET current_room == self.persona_locations[persona]
        it_location == self.persona_locations[self.it_persona]
        connected_rooms == self.rooms[current_room].connected_rooms
        available_rooms ==
            IF persona # self.it_persona /\ it_location \in Members(connected_rooms)
            THEN ListRemove(connected_rooms, it_location)
            ELSE connected_rooms
        target_locations ==
            {self.persona_locations[p] :
                p \in DOMAIN self.persona_locations \ {self.it_persona}}
        strategic ==
            IF persona = self.it_persona
            THEN FirstIn(available_rooms, 1, target_locations)
            ELSE FirstIn(Preferences(persona), 1, Members(available_rooms))
        returned ==
            IF strategic # "None" THEN {strategic}
            ELSE IF available_rooms # <<>> THEN Members(available_rooms)
            ELSE {current_room}
    IN {[new_room |-> room,
         rooms |-> [self.rooms EXCEPT ![current_room].connected_rooms = available_rooms]] :
           room \in returned}

\* the game after a persona's choice: the villa move of lines 124 and 138, whose
\* result play_round does not look at
AfterMove(self, persona, choice, always) ==
    IF always \/ self.persona_locations[persona] # choice.new_room
    THEN LET moved ==
                 move_persona(Game(choice.rooms, self.persona_locations, self.it_persona),
                              persona, choice.new_room)
         IN Game(moved.rooms, moved.persona_locations, self.it_persona)
    ELSE Game(choice.rooms, self.persona_locations, self.it_persona)

\* the loop of lines 132-142 from the i-th persona on: every game it can end in
RECURSIVE MoveOthers(_, _)
MoveOthers(self, i) ==
    IF i > Len(PersonaOrder) THEN {self}
    ELSE IF PersonaOrder[i] = self.it_persona THEN MoveOthers(self, i + 1)
    ELSE UNION {MoveOthers(AfterMove(self, PersonaOrder[i], choice, FALSE), i + 1) :
                  choice \in choose_strategic_move(self, PersonaOrder[i])}

\* the tag check of lines 145-154: the first persona found in the room of "it",
\* unless that room is a safe zone, is "it" from now on
CheckForTags(self) ==
    LET it_room == self.persona_locations[self.it_persona]
        found == {i \in DOMAIN PersonaOrder :
                     /\ PersonaOrder[i] # self.it_persona
                     /\ self.persona_locations[PersonaOrder[i]] = it_room
                     /\ it_room \notin safe_zones}
    IN IF found = {} THEN self
       ELSE [self EXCEPT !.it_persona =
                PersonaOrder[CHOOSE i \in found : \A j \in found : i <= j]]

\* TagGame.play_round for a game with an "it": every game the round can end in
play_round(self) ==
    UNION {{CheckForTags(after) :
              after \in MoveOthers(AfterMove(self, self.it_persona, choice, TRUE), 1)} :
             choice \in choose_strategic_move(self, self.it_persona)}

---------------------------------------------------------------------------
(* villa_diodati/villa_architecture.py: VillaDiodati *)

\* a Room of villa_architecture.py, by the fields the operations read or write;
\* every room starts empty, without an activity and without a mission
ArchitectureRoom(max_occupants) ==
    [current_occupants |-> {}, max_occupants |-> max_occupants,
     current_activity |-> "None", active_mission |-> "None"]

\* VillaDiodati.rooms after __init__ (lines 41-198)
VillaArchitectureRooms ==
    [r \in {"garden", "byron_study", "mary_chamber", "library", "lake_view",
            "main_salon", "conservatory", "control_room", "bronte_tower", "tower_study",
            "tower_balcony", "percy_chamber", "austen_study", "austen_chamber",
            "vr_prep_chamber"} |->
        CASE r = "main_salon" -> ArchitectureRoom(8)
          [] r \in {"garden", "control_room", "vr_prep_chamber"} -> ArchitectureRoom(6)
          [] r \in {"library", "lake_view", "conservatory"} -> ArchitectureRoom(4)
          [] r \in {"byron_study", "tower_study", "austen_study"} -> ArchitectureRoom(3)
          [] OTHER -> ArchitectureRoom(2)]

\* VillaDiodati.persona_locations after __init__ (lines 207-214)
VillaArchitectureLocations ==
    [p \in {"lord_byron", "mary_shelley", "percy_shelley", "herman_melville",
            "jane_austen", "emily_bronte"} |->
        CASE p = "lord_byron" -> "byron_study"
          [] p = "mary_shelley" -> "mary_chamber"
          [] p = "percy_shelley" -> "library"
          [] p = "herman_melville" -> "lake_view"
          [] p = "jane_austen" -> "austen_study"
          [] OTHER -> "bronte_tower"]

\* villa_architecture.VillaDiodati.move_persona: the result status and the rooms and
\* locations afterwards. The persona leaves the room recorded for it (lines 221-223)
\* before the occupancy of the target is tested (lines 225-226); "raised" is the
\* KeyError of set.remove at line 223 for a persona that is not among the occupants
\* of the room recorded for it
architecture_move_persona(self_rooms, self_locations, persona, target_room) ==
    IF target_room \notin DOMAIN self_rooms
    THEN [status |-> "error", rooms |-> self_rooms, persona_locations |-> self_locations]
    ELSE IF persona \in DOMAIN self_locations
            /\ persona \notin self_rooms[self_locations[persona]].current_occupants
    THEN [status |-> "raised", rooms |-> self_rooms, persona_locations |-> self_locations]
    ELSE LET removed ==
                 IF persona \in DOMAIN self_locations
                 THEN [self_rooms EXCEPT
                          ![self_locations[persona]].current_occupants = @ \ {persona}]
                 ELSE self_rooms
         IN IF Cardinality(removed[target_room].current_occupants)
                  >= removed[target_room].max_occupants
            THEN [status |-> "error", rooms |-> removed,
                  persona_locations |-> self_locations]
            ELSE [status |-> "success",
                  rooms |-> [removed EXCEPT
                                ![target_room].current_occupants = @ \cup {persona}],
                  persona_locations |->
                      [p \in DOMAIN self_locations \cup {persona} |->
                          IF p = persona THEN target_room ELSE self_locations[p]]]

\* the loops of lines 247-250 and 273-276 from participant i on: the first move that
\* fails ends the call with what the earlier moves left
RECURSIVE MoveAll(_, _, _, _, _)
MoveAll(self_rooms, self_locations, participants, i, room) ==
    IF i > Len(participants)
    THEN [status |-> "success", rooms |-> self_rooms, persona_locations |-> self_locations]
    ELSE LET move_result ==
                 architecture_move_persona(self_rooms, self_locations, participants[i], room)
         IN IF move_result.status # "success" THEN move_result
            ELSE MoveAll(move_result.rooms, move_result.persona_locations, participants,
                         i + 1, room)

\* the villa as an operation leaves it: the fields of self and the result status
Villa(status, self_rooms, self_locations, affairs, readings, missions) ==
    [status |-> status, rooms |-> self_rooms, persona_locations |-> self_locations,
     current_affairs |-> affairs, active_readings |-> readings, vr_missions |-> missions]

\* villa_architecture.VillaDiodati.start_activity
start_activity(self, room, activity, participants) ==
    IF room \notin DOMAIN self.rooms \/ self.rooms[room].current_activity # "None"
    THEN [self EXCEPT !.status = "error"]
    ELSE LET moved == MoveAll(self.rooms, self.persona_locations, participants, 1, room)
         IN IF moved.status # "success"
            THEN Villa(moved.status, moved.rooms, moved.persona_locations,
                       self.current_affairs, self.active_readings, self.vr_missions)
            ELSE Villa("success",
                       [moved.rooms EXCEPT ![room].current_activity = activity],
                       moved.persona_locations,
                       IF activity = "affair"
                       THEN Append(self.current_affairs, participants)
                       ELSE self.current_affairs,
                       IF activity = "reading"
                       THEN [r \in DOMAIN self.active_readings \cup {room} |->
                                IF r = room THEN participants ELSE self.active_readings[r]]
                       ELSE self.active_readings,
                       self.vr_missions)

\* villa_architecture.VillaDiodati.trigger_vr_mission
trigger_vr_mission(self, mission_name, participants) ==
    IF self.rooms["control_room"].active_mission # "None"
    THEN [self EXCEPT !.status = "error"]
    ELSE LET moved == MoveAll(self.rooms, self.persona_locations, participants, 1,
                              "vr_prep_chamber")
         IN IF moved.status # "success"
            THEN Villa(moved.status, moved.rooms, moved.persona_locations,
                       self.current_affairs, self.active_readings, self.vr_missions)
            ELSE Villa("success",
                       [moved.rooms EXCEPT !["control_room"].active_mission = mission_name],
                       moved.persona_locations, self.current_affairs,
                       self.active_readings,
                       [m \in DOMAIN self.vr_missions \cup {mission_name} |->
                           IF m = mission_name THEN participants ELSE self.vr_missions[m]])

---------------------------------------------------------------------------
(* The inputs the calls are explored with *)

BeatIds == {"2", "3", "4"}

RevengeThemes == [t \in {"revenge"} |-> One]
FallThemes == [t \in {"hubris", "nemesis", "recognition"} |-> One]

\* a CharacterAction leading to the given beats
Action(consequences) ==
    [thematic_elements |-> RevengeThemes, action_text |-> {"whale", "pursue"},
     impact_level |-> Q(1, 2), consequences |-> consequences, character_id |-> "ahab",
     is_canonical |-> TRUE]

ActionLists == {Empty, <<Action(<<"2">>)>>, <<Action(<<"2">>), Action(<<"3">>)>>}

Drifts == {One, Q(1, 5)}

StoryStates ==
    [kind : {"StoryState"}, available_actions : ActionLists, canonical_drift : Drifts,
     active_themes : {RevengeThemes}, current_node_id : {"1"}]

TimelineNodes ==
    [kind : {"TimelineNode"}, thematic_elements : {RevengeThemes, FallThemes},
     characters_present : {Empty, <<"ishmael">>, <<"nemesis", "ishmael">>}, id : BeatIds]

VariantIds == {"variant_1"}

\* validator configurations a host can set up through the public fields
PatternProfiles ==
    {Empty,
     [p \in {"tragic_fall"} |-> Q(1, 2)],
     [p \in {"tragic_fall", "quest"} |-> IF p = "tragic_fall" THEN One ELSE Q(1, 2)]}

CanonicalSets == {{}, {"2"}}

---------------------------------------------------------------------------
(* The state machine *)

Self ==
    [canonical_nodes |-> canonical_nodes, active_patterns |-> active_patterns,
     narrative_depth |-> narrative_depth, current_variant_id |-> current_variant_id,
     mappings |-> mappings, elements |-> elements,
     canonical_patterns |-> canonical_patterns]

\* TimelineConsistencyValidator.__init__
Init ==
    /\ canonical_nodes = {}
    /\ character_actions = Empty
    /\ active_patterns = Empty
    /\ narrative_depth = Empty
    /\ current_variant_id = NoVariant
    /\ mappings = Empty
    /\ symbolic_depth = Empty
    /\ elements = Empty
    /\ canonical_patterns = Empty
    /\ reference_nodes = Empty
    /\ excavations = 0
    /\ frye_patterns = _initialize_frye_patterns
    /\ suits = VRSystemSuits
    /\ active_missions = Empty
    /\ suit_up_successes = [s \in DOMAIN VRSystemSuits |-> 0]
    /\ rooms = VillaCoreRooms
    /\ persona_locations = VillaCoreLocations
    /\ architecture_rooms = VillaArchitectureRooms
    /\ architecture_locations = VillaArchitectureLocations
    /\ current_affairs = Empty
    /\ active_readings = Empty
    /\ vr_missions = Empty
    /\ it_persona = "None"
    /\ rounds = 0
    /\ call = [op |-> "__init__"]

\* a validator whose public fields canonical_nodes and active_patterns hold what a
\* host assigned to them: no method of the class writes canonical_nodes, and the
\* corpus of _get_all_nodes is empty, so these are inputs of the validation
InitConfigured ==
    /\ canonical_nodes \in CanonicalSets
    /\ character_actions = Empty
    /\ active_patterns \in PatternProfiles
    /\ narrative_depth = Empty
    /\ current_variant_id = NoVariant
    /\ mappings = Empty
    /\ symbolic_depth = Empty
    /\ elements = Empty
    /\ canonical_patterns = Empty
    /\ reference_nodes = Empty
    /\ excavations = 0
    /\ frye_patterns = _initialize_frye_patterns
    /\ suits = VRSystemSuits
    /\ active_missions = Empty
    /\ suit_up_successes = [s \in DOMAIN VRSystemSuits |-> 0]
    /\ rooms = VillaCoreRooms
    /\ persona_locations = VillaCoreLocations
    /\ architecture_rooms = VillaArchitectureRooms
    /\ architecture_locations = VillaArchitectureLocations
    /\ current_affairs = Empty
    /\ active_readings = Empty
    /\ vr_missions = Empty
    /\ it_persona = "None"
    /\ rounds = 0
    /\ call = [op |-> "__init__"]

\* TimelineConsistencyValidator.set_variant_id
SetVariantId ==
    \E variant_id \in VariantIds :
        /\ current_variant_id' = variant_id
        /\ call' = [op |-> "set_variant_id"]
        /\ UNCHANGED beyondNarrative /\ UNCHANGED <<canonical_nodes, character_actions, active_patterns, narrative_depth,
                       mappings, symbolic_depth, elements, canonical_patterns,
                       reference_nodes, excavations>>

\* TimelineConsistencyValidator.register_canonical_action
RegisterCanonicalAction ==
    \E character_id \in {"ahab"}, action \in {Action(<<"2">>)} :
        /\ Len(Get(character_actions, character_id, Empty)) < MaxRegistered
        /\ character_actions' =
              [c \in DOMAIN character_actions \cup {character_id} |->
                  IF c = character_id
                  THEN Append(Get(character_actions, c, Empty), action)
                  ELSE character_actions[c]]
        /\ call' = [op |-> "register_canonical_action"]
        /\ UNCHANGED beyondNarrative /\ UNCHANGED <<canonical_nodes, active_patterns, narrative_depth, current_variant_id,
                       mappings, symbolic_depth, elements, canonical_patterns,
                       reference_nodes, excavations>>

\* one call of validate_story_progression by the host
Validate ==
    /\ excavations < MaxExcavations
    /\ \E current_state \in StoryStates \cup {None}, next_node \in TimelineNodes \cup {None} :
          \E r \in {validate_story_progression(Self, current_state, next_node)} :
             /\ active_patterns' = r.active_patterns
             /\ narrative_depth' = r.narrative_depth
             /\ mappings' = r.mappings
             \* analyze_narrative_depth assigns symbolic_depth only for a non-empty corpus
             /\ symbolic_depth' = IF r.ran /\ _get_all_nodes # Empty
                                  THEN r.narrative_depth ELSE symbolic_depth
             /\ excavations' = excavations + (IF r.ran THEN 1 ELSE 0)
             /\ call' = [op |-> "validate_story_progression",
                         current_state |-> current_state, next_node |-> next_node,
                         state_after |-> r.state_after, node_after |-> r.node_after,
                         variant_id |-> current_variant_id,
                         patterns_before |-> active_patterns,
                         excavated |-> r.ran,
                         raised |-> r.raised, result |-> r.result]
             /\ UNCHANGED beyondNarrative /\ UNCHANGED <<canonical_nodes, character_actions, current_variant_id,
                            elements, canonical_patterns, reference_nodes>>

Next == SetVariantId \/ RegisterCanonicalAction \/ Validate

Spec == Init /\ [][Next]_vars

SpecConfigured == InitConfigured /\ [][Next]_vars


---------------------------------------------------------------------------
(* The NarrativeExcavator called directly on beat sequences *)

\* the longest beat sequence given to the excavator
MaxBeats == 2

\* a CharacterAction whose text mentions the symbol "recognition"
Mention(impact_level) ==
    [thematic_elements |-> FallThemes, action_text |-> {"recognition", "dawns"},
     impact_level |-> impact_level, consequences |-> Empty, character_id |-> "ahab",
     is_canonical |-> FALSE]

\* a TimelineNode, by the attributes the excavator reads
Beat(description, thematic_elements, actions) ==
    [character_actions |-> actions, kind |-> "TimelineNode",
     thematic_elements |-> thematic_elements, description |-> description]

BeatNames == {"prophecy", "fall", "unthemed"}

\* "fall": the three themes of the tragic fall at full strength and nothing else;
\* "prophecy": the same themes, the symbols and a tension pair of the tragic fall in
\* the description, and two actions mentioning the symbol "recognition"; "melville":
\* every theme, symbol and character type of the three works of melville_works;
\* "unthemed": the symbols and the tension pairs of the tragic fall in the
\* description and None in place of the theme map
BeatOf(name) ==
    CASE name = "fall" -> Beat({"sea", "the"}, FallThemes, Empty)
      [] name = "prophecy" ->
            Beat({"recognition", "fatal_flaw", "prophecy", "pride", "fall"}, FallThemes,
                 [c \in {"ahab"} |-> <<Mention(One), Mention(Q(1, 2))>>])
      [] name = "melville" ->
            Beat(UNION {melville_works[w].symbols : w \in DOMAIN melville_works},
                 [t \in UNION {melville_works[w].themes : w \in DOMAIN melville_works} |-> One],
                 [c \in {"ahab"} |->
                     <<[Mention(One) EXCEPT !.action_text =
                           UNION {melville_works[w].character_types :
                                     w \in DOMAIN melville_works}]>>])
      [] OTHER ->
            Beat({"recognition", "fatal_flaw", "prophecy", "pride", "fall", "destiny",
                  "free_will", "knowledge", "ignorance"}, None, Empty)

BeatNameSequences == UNION {[1..n -> BeatNames] : n \in 0..MaxBeats}

BeatsOf(names) == [i \in 1..Len(names) |-> BeatOf(names[i])]

\* the patterns the resonance is measured for: the library and patterns that lack
\* themes, symbols, tensions or all of them
PatternIds ==
    {"hero_journey", "tragic_fall", "rebirth", "quest",
     "no_themes", "no_symbols", "no_tensions", "blank"}

PatternOf(p) ==
    IF p \in DOMAIN archetypal_patterns THEN archetypal_patterns[p]
    ELSE [name |-> p,
          core_themes |-> IF p \in {"no_themes", "blank"} THEN {}
                          ELSE archetypal_patterns["tragic_fall"].core_themes,
          character_roles |-> Empty,
          symbolic_elements |-> IF p \in {"no_symbols", "blank"} THEN Empty
                                ELSE archetypal_patterns["tragic_fall"].symbolic_elements,
          narrative_tensions |-> IF p \in {"no_tensions", "blank"} THEN Empty
                                 ELSE archetypal_patterns["tragic_fall"].narrative_tensions]

\* the numbers the three sub-score computations divide by (lines 149, 152, 173, 177,
\* 198, 202), after the guards of lines 142, 152, 161 and 186
Divisors(pattern, nodes) ==
    (IF nodes = Empty THEN {}
     ELSE (IF pattern.core_themes # {}
           THEN {Len(nodes), Cardinality(pattern.core_themes)} ELSE {}))
    \cup (IF nodes = Empty \/ DOMAIN pattern.symbolic_elements = {} THEN {}
          ELSE {Len(nodes), Cardinality(DOMAIN pattern.symbolic_elements)})
    \cup (IF nodes = Empty \/ pattern.narrative_tensions = Empty THEN {}
          ELSE {Len(nodes), Len(pattern.narrative_tensions)})

\* NarrativeExcavator._measure_pattern_resonance, with its three local sub-scores
MeasurePatternResonance ==
    \E p \in PatternIds, names \in BeatNameSequences :
        \E pattern \in {PatternOf(p)}, nodes \in {BeatsOf(names)} :
            \E theme_resonance \in {_calculate_thematic_resonance(pattern.core_themes, nodes)},
               symbol_resonance \in
                   {_calculate_symbolic_resonance(pattern.symbolic_elements, nodes)},
               tension_resonance \in
                   {_calculate_tension_resonance(pattern.narrative_tensions, nodes)},
               result \in {_measure_pattern_resonance(pattern, nodes)} :
                /\ call' = [op |-> "_measure_pattern_resonance",
                            pattern_id |-> p, pattern |-> pattern, nodes |-> nodes,
                            theme_resonance |-> theme_resonance,
                            symbol_resonance |-> symbol_resonance,
                            tension_resonance |-> tension_resonance,
                            divisors |-> Divisors(pattern, nodes),
                            failed |->
                                {f \in {"thematic"} :
                                    ThematicFails(pattern.core_themes, nodes)}
                                \cup {f \in {"tension"} :
                                         TensionFails(pattern.narrative_tensions, nodes)},
                            result |-> result]
                /\ UNCHANGED beyondNarrative /\ UNCHANGED <<canonical_nodes, character_actions, active_patterns,
                               narrative_depth, current_variant_id, mappings,
                               symbolic_depth, elements, canonical_patterns,
                               reference_nodes, excavations>>

\* NarrativeExcavator.excavate_patterns; the history keeps the resonance the call
\* measured for each library pattern
ExcavatePatterns ==
    \E names \in BeatNameSequences :
        \E timeline_nodes \in {BeatsOf(names)} :
            \E resonance \in {[p \in DOMAIN archetypal_patterns |->
                                 _measure_pattern_resonance(archetypal_patterns[p],
                                                            timeline_nodes)]},
               result \in {excavate_patterns(timeline_nodes)} :
                /\ call' = [op |-> "excavate_patterns", timeline_nodes |-> timeline_nodes,
                            resonance |-> resonance, result |-> result]
                /\ UNCHANGED beyondNarrative /\ UNCHANGED <<canonical_nodes, character_actions, active_patterns,
                               narrative_depth, current_variant_id, mappings,
                               symbolic_depth, elements, canonical_patterns,
                               reference_nodes, excavations>>

\* NarrativeExcavator.analyze_narrative_depth: returns before the assignment of
\* symbolic_depth when there are no nodes
AnalyzeNarrativeDepth ==
    \E names \in BeatNameSequences :
        \E nodes \in {BeatsOf(names)} :
            \E depths \in {analyze_narrative_depth(nodes)} :
                /\ symbolic_depth' = IF nodes = Empty THEN symbolic_depth ELSE depths
                /\ call' = [op |-> "analyze_narrative_depth", nodes |-> nodes,
                            result |-> depths]
                /\ UNCHANGED beyondNarrative /\ UNCHANGED <<canonical_nodes, character_actions, active_patterns,
                               narrative_depth, current_variant_id, mappings,
                               elements, canonical_patterns, reference_nodes,
                               excavations>>

NextExcavator == MeasurePatternResonance \/ ExcavatePatterns \/ AnalyzeNarrativeDepth

SpecExcavator == Init /\ [][NextExcavator]_vars

---------------------------------------------------------------------------
(* The NarrativeOntologyBuilder called directly *)

\* the longest beat sequence of a registered reference or an analysed variant
MaxVariantBeats == 1

\* the longest beat sequence whose style resonance and fidelity are computed
MaxStyleBeats == 3

OntologyBeatNames == {"prophecy", "melville"}

VariantBeatSequences == UNION {[1..n -> OntologyBeatNames] : n \in 0..MaxVariantBeats}

StyleBeatSequences == UNION {[1..n -> OntologyBeatNames] : n \in 0..MaxStyleBeats}

\* the id register_canonical_text is called with, and an id it is never called with
RegisteredTextIds == {"moby_dick_original"}
CanonicalIds == {"moby_dick_original", "billy_budd_original"}

\* element mappings (variant element -> reference element -> similarity): none, one
\* element without a similar reference element, two elements with similar ones
ElementMappingNames == {"none", "unmatched", "matched"}

ElementMappingOf(name) ==
    CASE name = "none" -> Empty
      [] name = "unmatched" -> [e \in {"theme_revenge"} |-> Empty]
      [] OTHER ->
            [e \in {"ahab", "theme_revenge"} |->
                IF e = "theme_revenge" THEN [b \in {"theme_revenge"} |-> One]
                ELSE [b \in {"ahab", "ishmael"} |-> IF b = "ahab" THEN One ELSE Q(2, 5)]]

\* NarrativeOntologyBuilder.register_canonical_text
RegisterCanonicalText ==
    \E text_id \in RegisteredTextIds, names \in VariantBeatSequences :
        \E nodes \in {BeatsOf(names)} :
            \E r \in {register_canonical_text(Self, text_id, nodes)} :
                /\ canonical_patterns' = r.canonical_patterns
                /\ elements' = r.elements
                /\ reference_nodes' =
                      [t \in DOMAIN reference_nodes \cup {text_id} |->
                          IF t = text_id THEN nodes ELSE reference_nodes[t]]
                /\ call' = [op |-> "register_canonical_text", text_id |-> text_id,
                            nodes |-> nodes, raised |-> r.raised]
                /\ UNCHANGED beyondNarrative /\ UNCHANGED <<canonical_nodes, character_actions, active_patterns,
                               narrative_depth, current_variant_id, mappings,
                               symbolic_depth, excavations>>

\* NarrativeOntologyBuilder.analyze_variant
AnalyzeVariant ==
    \E names \in VariantBeatSequences, variant_id \in VariantIds,
       canonical_id \in CanonicalIds :
        \E variant_nodes \in {BeatsOf(names)} :
            \E r \in {analyze_variant(Self, variant_nodes, variant_id, canonical_id)} :
                /\ mappings' = r.mappings
                /\ call' = [op |-> "analyze_variant", variant_nodes |-> variant_nodes,
                            variant_id |-> variant_id, canonical_id |-> canonical_id,
                            mappings_before |-> mappings,
                            raised |-> r.raised, result |-> r.result]
                /\ UNCHANGED beyondNarrative /\ UNCHANGED <<canonical_nodes, character_actions, active_patterns,
                               narrative_depth, current_variant_id, symbolic_depth,
                               elements, canonical_patterns, reference_nodes,
                               excavations>>

\* NarrativeOntologyBuilder._analyze_melville_resonance
AnalyzeMelvilleResonance ==
    \E names \in StyleBeatSequences :
        \E nodes \in {BeatsOf(names)} :
            \E result \in {_analyze_melville_resonance(nodes)} :
                /\ call' = [op |-> "_analyze_melville_resonance", nodes |-> nodes,
                            result |-> result]
                /\ UNCHANGED beyondNarrative /\ UNCHANGED <<canonical_nodes, character_actions, active_patterns,
                               narrative_depth, current_variant_id, mappings,
                               symbolic_depth, elements, canonical_patterns,
                               reference_nodes, excavations>>

\* NarrativeOntologyBuilder._calculate_canonical_fidelity, given element mappings and
\* the shifts and the style resonance that lines 168-175 compute for a variant of
\* the text that can be registered
CalculateCanonicalFidelity ==
    \E em \in ElementMappingNames, names \in StyleBeatSequences,
       canonical_id \in RegisteredTextIds :
        \E element_mappings \in {ElementMappingOf(em)}, nodes \in {BeatsOf(names)} :
            \E archetypal_shifts \in
                   {_calculate_archetypal_shifts(Self, canonical_id, excavate_patterns(nodes))},
               melville_resonance \in {_analyze_melville_resonance(nodes)} :
                \E result \in {_calculate_canonical_fidelity(element_mappings,
                                                             archetypal_shifts,
                                                             melville_resonance)} :
                    /\ call' = [op |-> "_calculate_canonical_fidelity",
                                element_mappings |-> element_mappings,
                                archetypal_shifts |-> archetypal_shifts,
                                melville_resonance |-> melville_resonance,
                                beats |-> Len(nodes),
                                result |-> result]
                    /\ UNCHANGED beyondNarrative /\ UNCHANGED <<canonical_nodes, character_actions, active_patterns,
                                   narrative_depth, current_variant_id, mappings,
                                   symbolic_depth, elements, canonical_patterns,
                                   reference_nodes, excavations>>

NextOntology ==
    \/ RegisterCanonicalText
    \/ AnalyzeVariant
    \/ AnalyzeMelvilleResonance
    \/ CalculateCanonicalFidelity

SpecOntology == Init /\ [][NextOntology]_vars

---------------------------------------------------------------------------
(* The Frye analysis on its own: narrative_ontology.py, lines 197-261 *)

\* beats of a Frye analysis
MaxFryeBeats == 2

\* an action of a beat, by its text
Speaks(action_text) ==
    [thematic_elements |-> FallThemes, action_text |-> action_text,
     impact_level |-> Q(1, 2), consequences |-> Empty, character_id |-> "king",
     is_canonical |-> TRUE]

FryeBeatNames == {"unthemed", "the_fall", "the_storm", "the_crown", "wedding", "the_fates"}

\* "the_fall", "the_storm": the two beats of test_frye_pattern_recognition;
\* "the_crown": the beat of test_pattern_resonance_calculation; "wedding": character
\* types, symbols and themes of comedy and of romance; "the_fates": the three themes
\* of tragedy and nothing else; "unthemed": a beat with None as its theme map
FryeBeatOf(name) ==
    CASE name = "the_fall" ->
            Beat({"fall", "castle"}, [t \in {"hubris", "pride", "fate"} |-> Q(4, 5)],
                 [c \in {"king"} |-> <<Speaks({"destiny", "tragic hero"})>>])
      [] name = "the_storm" ->
            Beat({"prophecy", "storm"}, [t \in {"fate", "justice"} |-> Q(4, 5)],
                 [c \in {"chorus"} |-> <<Speaks({"chorus", "retribution"})>>])
      [] name = "the_crown" ->
            Beat({"storm", "crown"}, [t \in {"pride", "fate"} |-> Q(4, 5)],
                 [c \in {"chorus", "king"} |->
                     IF c = "king" THEN <<Speaks({"prophecy", "tragic hero"})>>
                     ELSE <<Speaks({"chorus", "pride", "hero"})>>])
      [] name = "wedding" ->
            Beat({"garden", "festival", "sword"},
                 [t \in {"renewal", "adventure"} |-> Q(4, 5)],
                 [c \in {"king"} |->
                     <<Speaks({"helper", "young lover"}), Speaks({"hero", "companion"})>>])
      [] name = "the_fates" ->
            Beat({"castle"}, [t \in {"pride", "fate", "justice"} |-> Q(4, 5)], Empty)
      [] OTHER -> Beat({"storm"}, None, Empty)

FryeBeatSequences == UNION {[1..n -> FryeBeatNames] : n \in 0..MaxFryeBeats}

FryeBeatsOf(names) == [i \in 1..Len(names) |-> FryeBeatOf(names[i])]

\* the patterns a resonance is calculated for: the catalogue, the pattern of
\* test_pattern_resonance_calculation and a pattern without any marker
FryePatternIds == {"comedy", "romance", "tragedy", "irony", "test_pattern", "no_markers"}

FryePatternOf(p) ==
    CASE p = "test_pattern" ->
            FryeanPattern("tragedy", {"chorus", "tragic hero"},
                          <<"hubris", "prophecy", "fall">>, {"storm", "crown", "throne"},
                          {"pride", "fate", "justice"}, <<<<"individual", "fate">>>>)
      [] p = "no_markers" -> FryeanPattern("irony", {}, Empty, {}, {}, Empty)
      [] OTHER -> _initialize_frye_patterns[p][1]

\* NarrativeOntologyBuilder._calculate_pattern_resonance
CalculatePatternResonance ==
    \E p \in FryePatternIds, names \in FryeBeatSequences :
        \E pattern \in {FryePatternOf(p)}, nodes \in {FryeBeatsOf(names)} :
            \E result \in {_calculate_pattern_resonance(pattern, nodes)} :
                /\ call' = [op |-> "_calculate_pattern_resonance", pattern_id |-> p,
                            pattern |-> pattern, nodes |-> nodes, result |-> result]
                /\ UNCHANGED beyondNarrative /\ UNCHANGED narrative

\* NarrativeOntologyBuilder._analyze_frye_patterns
AnalyzeFryePatterns ==
    \E names \in FryeBeatSequences :
        \E nodes \in {FryeBeatsOf(names)} :
            \E r \in {_analyze_frye_patterns(frye_patterns, nodes)} :
                /\ frye_patterns' = r.frye_patterns
                /\ call' = [op |-> "_analyze_frye_patterns", nodes |-> nodes,
                            catalogue |-> frye_patterns, result |-> r.result]
                /\ UNCHANGED narrative /\ UNCHANGED vr /\ UNCHANGED villaCore /\ UNCHANGED tagGame
                /\ UNCHANGED villaArchitecture

NextFrye == CalculatePatternResonance \/ AnalyzeFryePatterns

SpecFrye == Init /\ [][NextFrye]_vars

---------------------------------------------------------------------------
(* The two drift functions on their own: timeline_validator.py, lines 174-227 *)

\* the drifts and consistencies are the multiples of 1/DriftSteps in [0,1]
DriftSteps == 5

\* the rejection threshold of line 128
MinConsistency == Q(4, 10)

UnitGrid == {Q(k, DriftSteps) : k \in 0..DriftSteps}

\* pattern consistencies: the grid and the threshold itself
Consistencies == UnitGrid \cup {MinConsistency}

ThemeMapNames == {"fall", "revenge", "none", "fading"}

\* "fading": revenge at half strength and a theme without a configured weight;
\* "fall": the three core themes of the tragic fall
ThemeMapOf(name) ==
    CASE name = "none" -> Empty
      [] name = "revenge" -> RevengeThemes
      [] name = "fading" -> [t \in {"revenge", "mercy"} |-> IF t = "revenge" THEN Q(1, 2) ELSE One]
      [] OTHER -> FallThemes

\* TimelineConsistencyValidator._calculate_thematic_drift
CalculateThematicDrift ==
    \E current \in ThemeMapNames, next \in ThemeMapNames, patterns \in PatternProfiles :
        \E current_themes \in {ThemeMapOf(current)}, next_themes \in {ThemeMapOf(next)} :
            \E result \in {_calculate_thematic_drift(current_themes, next_themes, patterns)} :
                /\ call' = [op |-> "_calculate_thematic_drift",
                            current_themes |-> current_themes, next_themes |-> next_themes,
                            active_patterns |-> patterns, result |-> result]
                /\ UNCHANGED beyondNarrative /\ UNCHANGED narrative

\* TimelineConsistencyValidator._update_canonical_drift
UpdateCanonicalDrift ==
    \E current_drift \in UnitGrid, is_canonical_node \in BOOLEAN,
       thematic_drift \in UnitGrid, pattern_consistency \in Consistencies :
        \E result \in {_update_canonical_drift(current_drift, is_canonical_node,
                                               thematic_drift, pattern_consistency)} :
            /\ call' = [op |-> "_update_canonical_drift", current_drift |-> current_drift,
                        is_canonical_node |-> is_canonical_node,
                        thematic_drift |-> thematic_drift,
                        pattern_consistency |-> pattern_consistency, result |-> result]
            /\ UNCHANGED beyondNarrative /\ UNCHANGED narrative

NextDrift == CalculateThematicDrift \/ UpdateCanonicalDrift

SpecDrift == Init /\ [][NextDrift]_vars

---------------------------------------------------------------------------
(* The VR system: villa_diodati/vr_system.py *)

\* participants of a mission
MaxParticipants == 2

\* successful suit_up runs of a suit the history counts up to
MaxSuitUps == 2

\* "keats" has no configured suit
Personas == {"byron", "mary", "keats"}

ParticipantLists == UNION {[1..n -> Personas] : n \in 0..MaxParticipants}

MissionNames == {"rescue", "counsel"}

\* a configured novel and one that is not
Novels == {"frankenstein", "atlantis"}

VRSelf == [suits |-> suits, active_missions |-> active_missions]

\* the suits whose suit_up succeeded between two suit tables: only suit_up moves a
\* suit to IN_USE
SuitedUp(before, after) ==
    {s \in DOMAIN before : before[s].status # IN_USE /\ after[s].status = IN_USE}

Counted(before, after) ==
    [s \in DOMAIN suit_up_successes |->
        IF s \in SuitedUp(before, after) /\ suit_up_successes[s] < MaxSuitUps
        THEN suit_up_successes[s] + 1 ELSE suit_up_successes[s]]

\* VRSystem.suit_up
SuitUp ==
    \E persona \in Personas :
        \E r \in {suit_up(suits, persona)} :
            /\ suits' = r.suits
            /\ suit_up_successes' = Counted(suits, r.suits)
            /\ call' = [op |-> "suit_up", persona |-> persona, status |-> r.status,
                        suits_before |-> suits, missions_before |-> active_missions]
            /\ UNCHANGED active_missions
            /\ UNCHANGED playbook /\ UNCHANGED villaCore /\ UNCHANGED tagGame /\ UNCHANGED villaArchitecture

\* VRSystem.start_mission
StartMission ==
    \E mission_name \in MissionNames, novel \in Novels, participants \in ParticipantLists :
        \E r \in {start_mission(VRSelf, mission_name, novel, participants)} :
            /\ suits' = r.suits
            /\ active_missions' = r.active_missions
            /\ suit_up_successes' = Counted(suits, r.suits)
            /\ call' = [op |-> "start_mission", mission_name |-> mission_name,
                        novel |-> novel, participants |-> participants,
                        status |-> r.status,
                        suits_before |-> suits, missions_before |-> active_missions]
            /\ UNCHANGED playbook /\ UNCHANGED villaCore /\ UNCHANGED tagGame /\ UNCHANGED villaArchitecture

\* VRSystem.end_mission
EndMission ==
    \E mission_name \in MissionNames :
        \E r \in {end_mission(VRSelf, mission_name)} :
            /\ suits' = r.suits
            /\ active_missions' = r.active_missions
            /\ call' = [op |-> "end_mission", mission_name |-> mission_name,
                        status |-> r.status,
                        suits_before |-> suits, missions_before |-> active_missions]
            /\ UNCHANGED suit_up_successes
            /\ UNCHANGED playbook /\ UNCHANGED villaCore /\ UNCHANGED tagGame /\ UNCHANGED villaArchitecture

NextVR == SuitUp \/ StartMission \/ EndMission

SpecVR == Init /\ [][NextVR]_vars

---------------------------------------------------------------------------
(* The villa of villa_core.py on its own *)

\* the personas that are moved; the other three stay where __init__ put them
MovedPersonas == {"lord_byron", "mary_shelley", "percy_shelley"}

\* two rooms for two, a room for three that holds one of the others, and a name
\* that is no room of the villa
TargetRooms == {"byron_study", "mary_chamber", "lake_view", "dining_room"}

CoreSelf == [rooms |-> rooms, persona_locations |-> persona_locations]

\* villa_core.VillaDiodati.move_persona
MovePersona ==
    \E persona \in MovedPersonas, target_room \in TargetRooms :
        \E r \in {move_persona(CoreSelf, persona, target_room)} :
            /\ rooms' = r.rooms
            /\ persona_locations' = r.persona_locations
            /\ call' = [op |-> "move_persona", persona |-> persona,
                        target_room |-> target_room, status |-> r.status,
                        occupants_before |->
                            IF target_room \in DOMAIN rooms
                            THEN rooms[target_room].current_occupants ELSE {}]
            /\ UNCHANGED playbook /\ UNCHANGED vr /\ UNCHANGED villaArchitecture
            /\ UNCHANGED tagGame

NextVillaCore == MovePersona

SpecVillaCore == Init /\ [][NextVillaCore]_vars

---------------------------------------------------------------------------
(* The villa of villa_architecture.py on its own *)

\* participants of an activity or of a mission
MaxActivityParticipants == 2

\* guests of the villa: personas without a recorded location
Guests == {"john_polidori", "claire_clairmont", "john_keats"}

GuestLists == UNION {[1..n -> Guests] : n \in 0..MaxActivityParticipants}

\* a room for two and a name that is no room of the villa
ActivityRooms == {"mary_chamber", "crypt"}

\* two members of ActivityType: one whose participants are recorded and one that
\* only marks the room
Activities == {"reading", "writing"}

VRMissionNames == {"frankenstein_rescue"}

ArchitectureSelf ==
    Villa("None", architecture_rooms, architecture_locations, current_affairs,
          active_readings, vr_missions)

\* villa_architecture.VillaDiodati.move_persona
ArchitectureMovePersona ==
    \E persona \in Guests, target_room \in ActivityRooms :
        \E r \in {architecture_move_persona(architecture_rooms, architecture_locations,
                                            persona, target_room)} :
            /\ architecture_rooms' = r.rooms
            /\ architecture_locations' = r.persona_locations
            /\ call' = [op |-> "move_persona", persona |-> persona,
                        target_room |-> target_room, status |-> r.status]
            /\ UNCHANGED <<current_affairs, active_readings, vr_missions>>
            /\ UNCHANGED playbook /\ UNCHANGED vr /\ UNCHANGED villaCore /\ UNCHANGED tagGame

\* villa_architecture.VillaDiodati.start_activity
StartActivity ==
    \E room \in ActivityRooms, activity \in Activities, participants \in GuestLists :
        \E r \in {start_activity(ArchitectureSelf, room, activity, participants)} :
            /\ architecture_rooms' = r.rooms
            /\ architecture_locations' = r.persona_locations
            /\ current_affairs' = r.current_affairs
            /\ active_readings' = r.active_readings
            /\ vr_missions' = r.vr_missions
            /\ call' = [op |-> "start_activity", room |-> room, activity |-> activity,
                        status |-> r.status]
            /\ UNCHANGED playbook /\ UNCHANGED vr /\ UNCHANGED villaCore /\ UNCHANGED tagGame

\* villa_architecture.VillaDiodati.trigger_vr_mission
TriggerVRMission ==
    \E mission_name \in VRMissionNames, participants \in GuestLists :
        \E r \in {trigger_vr_mission(ArchitectureSelf, mission_name, participants)} :
            /\ architecture_rooms' = r.rooms
            /\ architecture_locations' = r.persona_locations
            /\ current_affairs' = r.current_affairs
            /\ active_readings' = r.active_readings
            /\ vr_missions' = r.vr_missions
            /\ call' = [op |-> "trigger_vr_mission", mission_name |-> mission_name,
                        status |-> r.status]
            /\ UNCHANGED playbook /\ UNCHANGED vr /\ UNCHANGED villaCore /\ UNCHANGED tagGame

NextVillaArchitecture == ArchitectureMovePersona \/ StartActivity \/ TriggerVRMission

SpecVillaArchitecture == Init /\ [][NextVillaArchitecture]_vars

---------------------------------------------------------------------------
(* The game of tag of tag_game.py in the villa of villa_core.py *)

\* play_round runs of one game
MaxRounds == 2

GameSelf == Game(rooms, persona_locations, it_persona)

\* TagGame.start_game
StartGame ==
    \E started \in {start_game(GameSelf, 1)} :
        /\ rooms' = started.rooms
        /\ persona_locations' = started.persona_locations
        /\ it_persona' = started.it_persona
        /\ call' = [op |-> "start_game", status |-> "returned"]
        /\ UNCHANGED rounds
        /\ UNCHANGED playbook /\ UNCHANGED vr /\ UNCHANGED villaArchitecture

\* TagGame.choose_strategic_move; without an "it" line 48 raises KeyError before
\* anything is written
ChooseStrategicMove ==
    \E persona \in DOMAIN persona_locations :
        IF it_persona = "None"
        THEN /\ call' = [op |-> "choose_strategic_move", persona |-> persona,
                         status |-> "raised"]
             /\ UNCHANGED villaCore /\ UNCHANGED tagGame
             /\ UNCHANGED playbook /\ UNCHANGED vr /\ UNCHANGED villaArchitecture
        ELSE \E choice \in choose_strategic_move(GameSelf, persona) :
                /\ rooms' = choice.rooms
                /\ call' = [op |-> "choose_strategic_move", persona |-> persona,
                            status |-> "returned"]
                /\ UNCHANGED <<persona_locations, it_persona, rounds>>
                /\ UNCHANGED playbook /\ UNCHANGED vr /\ UNCHANGED villaArchitecture

\* TagGame.play_round; without an "it" line 122 raises KeyError before anything is
\* written
PlayRound ==
    /\ rounds < MaxRounds
    /\ IF it_persona = "None"
       THEN /\ call' = [op |-> "play_round", status |-> "raised"]
            /\ UNCHANGED villaCore /\ UNCHANGED tagGame
       ELSE \E played \in play_round(GameSelf) :
               /\ rooms' = played.rooms
               /\ persona_locations' = played.persona_locations
               /\ it_persona' = played.it_persona
               /\ rounds' = rounds + 1
               /\ call' = [op |-> "play_round", status |-> "returned"]
    /\ UNCHANGED playbook /\ UNCHANGED vr /\ UNCHANGED villaArchitecture

NextTag == StartGame \/ ChooseStrategicMove \/ PlayRound

SpecTag == Init /\ [][NextTag]_vars

---------------------------------------------------------------------------
(* Shorthands for the properties *)

IsValidate == call.op = "validate_story_progression"

\* the call was made on a state with a first available action and a well-formed beat
HasFirstAction ==
    /\ IsValidate
    /\ call.current_state # None
    /\ call.current_state.available_actions # Empty
    /\ call.next_node # None

\* the beat's id is in the consequences of the first available action
FirstActionLeadsToBeat ==
    \E i \in 1..Len(call.current_state.available_actions[1].consequences) :
        call.current_state.available_actions[1].consequences[i] = call.next_node.id

\* the beat's id is in the consequence set of the current beat (of any available action)
SomeActionLeadsToBeat ==
    \E k \in 1..Len(call.current_state.available_actions) :
        \E i \in 1..Len(call.current_state.available_actions[k].consequences) :
            call.current_state.available_actions[k].consequences[i] = call.next_node.id

\* the call went past the connectivity check and the lazy excavation without an error
ReachedConsistencyCheck ==
    /\ HasFirstAction
    /\ FirstActionLeadsToBeat
    /\ call.result.reason # "Validation error"

\* the pattern consistency and the thematic drift of the call, from the patterns
\* the call left active
CallConsistency == _validate_pattern_consistency(active_patterns, call.next_node)
CallThematicDrift ==
    _calculate_thematic_drift(call.current_state.active_themes,
                              call.next_node.thematic_elements, active_patterns)

\* the drift formula of the specification, written out
FormulaDrift ==
    LET factor == IF call.next_node.id \in canonical_nodes THEN Q(7, 10) ELSE Q(13, 10)
        raw == QAdd(QAdd(QMul(QMul(call.current_state.canonical_drift, factor), Q(4, 10)),
                         QMul(CallThematicDrift, Q(3, 10))),
                    QMul(QSub(One, CallConsistency), Q(3, 10)))
    IN IF QLess(raw, Zero) THEN Zero ELSE IF QLess(One, raw) THEN One ELSE raw

\* the call passed steps 1-5: connected, no error, consistency at least 0.4
PassedConsistencyCheck ==
    /\ ReachedConsistencyCheck
    /\ ~QLess(CallConsistency, Q(4, 10))


---------------------------------------------------------------------------
(* C1 *)

\* C1 as stated: in every story state, the empty available-action list included,
\* an accepted beat is in the consequence set of the current beat.
C1_AdjacencyInEveryState ==
    (IsValidate /\ call.current_state # None /\ call.next_node # None
        /\ call.result.accepted)
    => SomeActionLeadsToBeat

\* C1 (amended): over any sequence of calls, a call on a story state that has
\* available actions never accepts a beat whose id is absent from the current
\* beat's consequence set; a state without available actions accepts every beat.
C1_AdjacencyWhenActionsAvailable ==
    /\ (HasFirstAction /\ call.result.accepted) => SomeActionLeadsToBeat
    /\ (IsValidate /\ call.current_state # None
           /\ call.current_state.available_actions = Empty)
       => call.result.accepted

\* a state holding several actions, none of which leads to the proposed beat: rejected
C1_Witness ==
    /\ HasFirstAction
    /\ Len(call.current_state.available_actions) = 2
    /\ call.next_node.id = "4"
    /\ ~SomeActionLeadsToBeat
    /\ ~call.result.accepted

(* C2 *)

\* C2: a beat whose id is not among the consequences of the first available action
\* is rejected with (false, 1.0, not connected), and the call makes no excavation:
\* the pattern cache is what it was before the call.
C2_DisconnectedRejectedBeforeExcavation ==
    (HasFirstAction /\ ~FirstActionLeadsToBeat)
    => /\ call.result = Triple(FALSE, One, "Invalid story progression - nodes not connected")
       /\ ~call.excavated
       /\ active_patterns = call.patterns_before

\* the example of the specification: the only consequence is "2", the beat is "3"
C2_Witness ==
    /\ HasFirstAction
    /\ Len(call.current_state.available_actions) = 1
    /\ call.current_state.available_actions[1].consequences = <<"2">>
    /\ call.next_node.id = "3"
    /\ call.result.reason = "Invalid story progression - nodes not connected"
    /\ excavations = 0

(* C3 *)

\* C3: a call that passes the connectivity and the pattern-consistency checks returns
\* the drift clamp(current_drift * (0.7 if the beat is canonical else 1.3) * 0.4
\* + thematic_drift * 0.3 + (1 - pattern_consistency) * 0.3) to [0, 1].
C3_DriftFormula ==
    PassedConsistencyCheck => call.result.drift = FormulaDrift

\* the example of the specification: drift 0.2, a canonical beat, the same themes on
\* both sides, consistency 1.0; the call returns 0.056 = 7/125
C3_Witness ==
    /\ PassedConsistencyCheck
    /\ call.current_state.canonical_drift = Q(2, 10)
    /\ call.next_node.id \in canonical_nodes
    /\ call.current_state.active_themes = call.next_node.thematic_elements
    /\ CallThematicDrift = Zero
    /\ CallConsistency = One
    /\ call.result = Triple(TRUE, Q(56, 1000), "Valid progression")

(* C4 *)

\* C4: the drift of every result lies in [0, 1], whether the call accepted, rejected
\* at any step or met an internal error.
C4_DriftInUnitInterval ==
    IsValidate => (QLeq(Zero, call.result.drift) /\ QLeq(call.result.drift, One))

\* a fully diverged story on a beat off the canon, with active patterns that the beat
\* only half agrees with: current drift 1.0, and a returned drift above 0.8
C4_Witness ==
    /\ PassedConsistencyCheck
    /\ call.current_state.canonical_drift = One
    /\ call.next_node.id \notin canonical_nodes
    /\ DOMAIN active_patterns # {}
    /\ QLess(CallConsistency, One)
    /\ QLess(Q(8, 10), call.result.drift)

(* C5 *)

\* C5: a call that reaches the consistency check with a pattern consistency below 0.4
\* returns (false, 1.0, breaks archetypal pattern consistency), whatever the drifts
\* are; with no active pattern the consistency is 1.0 and the call is not rejected
\* at this step.
C5_LowConsistencyRejects ==
    ReachedConsistencyCheck
    => /\ QLess(CallConsistency, Q(4, 10))
          => call.result = Triple(FALSE, One,
                                  "Progression breaks archetypal pattern consistency")
       /\ DOMAIN active_patterns = {}
          => /\ CallConsistency = One
             /\ call.result.reason # "Progression breaks archetypal pattern consistency"

\* a beat that shares no theme and no character role with the active pattern:
\* consistency 0.0, rejected
C5_Witness ==
    /\ ReachedConsistencyCheck
    /\ DOMAIN active_patterns # {}
    /\ CallConsistency = Zero
    /\ call.result.reason = "Progression breaks archetypal pattern consistency"
    /\ ~call.result.accepted

(* C6 *)

C7_StateDriftUpdated ==
    (IsValidate /\ call.current_state # None /\ call.result.accepted)
    => call.state_after.canonical_drift = call.result.drift

\* C7 (amended): on every accepted transition the validator returns the newly computed
\* drift as the second component of its result and leaves the canonical drift of the
\* StoryState as it was; the drift accumulates over a session only if the caller
\* stores the returned value in the state of the next call.
C7_DriftReturnedNotStored ==
    (IsValidate /\ call.current_state # None /\ call.result.accepted)
    => /\ call.state_after.canonical_drift = call.current_state.canonical_drift
       /\ call.current_state.available_actions # Empty
          => (PassedConsistencyCheck /\ call.result.drift = FormulaDrift)
       /\ call.current_state.available_actions = Empty
          => call.result.drift = call.current_state.canonical_drift

\* an accepted transition whose new drift differs from the drift of the state
C7_Witness ==
    /\ PassedConsistencyCheck
    /\ call.result.accepted
    /\ call.result.drift # call.current_state.canonical_drift
    /\ call.state_after.canonical_drift = call.current_state.canonical_drift

(* C8 *)

\* C8: a call of validate_story_progression leaves the StoryState and the beat it was
\* given, the set of canonical beats, the registered actions, the variant id and the
\* ontology mappings as they were; only the pattern cache may change. A rejected
\* transition in particular changes none of them.
C8_OnlyPatternCacheChanges ==
    [][call'.op = "validate_story_progression"
         => /\ call'.state_after = call'.current_state
            /\ call'.node_after = call'.next_node
            /\ canonical_nodes' = canonical_nodes
            /\ character_actions' = character_actions
            /\ current_variant_id' = current_variant_id
            /\ mappings' = mappings]_vars

\* an accepted call that ran the excavation, after an action was registered: the
\* cache was written, the arguments and the registered actions are what they were
C8_Witness ==
    /\ IsValidate
    /\ call.excavated
    /\ call.result.accepted
    /\ character_actions # Empty
    /\ call.state_after = call.current_state
    /\ call.node_after = call.next_node

(* C9 *)

\* C9: no call of validate_story_progression raises; every call, on an absent state,
\* on a malformed beat or with a failure inside the excavation or the ontology
\* analysis, returns a triple (accepted, drift, reason).
C9_NeverRaises ==
    IsValidate
    => /\ ~call.raised
       /\ DOMAIN call.result = {"drift", "accepted", "reason"}
       /\ call.result.accepted \in BOOLEAN
       /\ (call.current_state = None
             => call.result = Triple(FALSE, One, "Invalid state: Story state not initialized"))

\* a malformed beat (None) proposed to a state that has actions: the AttributeError
\* comes back as the value (false, 1.0, Validation error)
C9_Witness ==
    /\ IsValidate
    /\ call.current_state # None
    /\ call.current_state.available_actions # Empty
    /\ call.next_node = None
    /\ ~call.raised
    /\ call.result = Triple(FALSE, One, "Validation error")

(* C10 *)

\* C10: over any sequence of calls on one validator instance the excavator is run at
\* most once, also when the excavation found no active pattern.
C10_ExcavatedAtMostOnce ==
    excavations <= 1

(* C11 *)

\* the triple the same call returns on the same validator (the pattern cache as it
\* was before the call) when no variant id is set
ResultWithoutVariant ==
    validate_story_progression([Self EXCEPT !.active_patterns = call.patterns_before,
                                            !.current_variant_id = NoVariant],
                               call.current_state, call.next_node).result

\* C11: a variant id affects diagnostics only: for the same validator history, story
\* state and next beat, a call returns the same (accepted, drift, reason) with a
\* variant id set as with none set.
C11_VariantIdAffectsDiagnosticsOnly ==
    IsValidate => call.result = ResultWithoutVariant

(* C12 *)

\* the beats the validator has been told of: the only registering operation of the
\* class, register_canonical_action, stores canonical actions, and these are the
\* beats such an action leads to
RegisteredBeats ==
    UNION {UNION {{character_actions[c][i].consequences[k] :
                      k \in 1..Len(character_actions[c][i].consequences)} :
                  i \in {j \in 1..Len(character_actions[c]) :
                            character_actions[c][j].is_canonical}} :
           c \in DOMAIN character_actions}

\* the drift formula of the specification with a given canonical factor
DriftWithFactor(factor) ==
    LET raw == QAdd(QAdd(QMul(QMul(call.current_state.canonical_drift, factor), Q(4, 10)),
                         QMul(CallThematicDrift, Q(3, 10))),
                    QMul(QSub(One, CallConsistency), Q(3, 10)))
    IN IF QLess(raw, Zero) THEN Zero ELSE IF QLess(One, raw) THEN One ELSE raw

\* C12: once a beat has been marked as canonical through the validator's registering
\* operation, every later transition into it is computed with the canonical factor
\* 0.7, while transitions into unmarked beats use 1.3.
C12_MarkedBeatUsesCanonicalFactor ==
    PassedConsistencyCheck
    => call.result.drift =
          DriftWithFactor(IF call.next_node.id \in RegisteredBeats
                          THEN Q(7, 10) ELSE Q(13, 10))

(* C13 *)

\* C13: a call on a state that has no available actions accepts every next beat and
\* returns the state's drift unchanged, without running the excavation or any
\* consistency or drift computation (the validator's fields stay as they were).
C13_NoActionsAcceptsUnchanged ==
    (IsValidate /\ call.current_state # None
        /\ call.current_state.available_actions = Empty)
    => /\ call.result = Triple(TRUE, call.current_state.canonical_drift,
                               "No actions available")
       /\ ~call.excavated
       /\ active_patterns = call.patterns_before

\* a state without actions and with drift 0.2, on a validator with a variant id set
\* and an empty pattern cache (where a call that reaches the excavation fails): the
\* beat "4" is accepted with drift 0.2 and nothing was excavated
C13_Witness ==
    /\ IsValidate
    /\ call.current_state # None
    /\ call.current_state.available_actions = Empty
    /\ call.current_state.canonical_drift = Q(1, 5)
    /\ call.next_node # None
    /\ call.next_node.id = "4"
    /\ call.variant_id = "variant_1"
    /\ call.patterns_before = Empty
    /\ call.result.accepted
    /\ call.result.drift = Q(1, 5)
    /\ excavations = 0

(* C14 *)

\* C14: for every library pattern and every beat sequence whose theme strengths and
\* symbol weights lie in [0,1], the thematic, symbolic and tension sub-scores and the
\* final resonance 0.4 x thematic + 0.3 x symbolic + 0.3 x tension all lie in [0,1].
C14_ResonanceInUnitInterval ==
    (call.op = "_measure_pattern_resonance" /\ call.pattern_id \in DOMAIN archetypal_patterns)
    => /\ \A x \in {call.theme_resonance, call.symbol_resonance, call.tension_resonance,
                    call.result} : QLeq(Zero, x) /\ QLeq(x, One)
       /\ call.result = QAdd(QAdd(QMul(Q(4, 10), call.theme_resonance),
                                  QMul(Q(3, 10), call.symbol_resonance)),
                             QMul(Q(3, 10), call.tension_resonance))

\* the tragic fall measured over two beats that both hold its three themes at full
\* strength, its three symbols and one of its three tension pairs: the thematic
\* sub-score is at the top of the interval, the resonance is 0.4 + 0.24 + 0.1
C14_Witness ==
    /\ call.op = "_measure_pattern_resonance"
    /\ call.pattern_id = "tragic_fall"
    /\ Len(call.nodes) = 2
    /\ call.theme_resonance = One
    /\ call.symbol_resonance = Q(8, 10)
    /\ call.tension_resonance = Q(1, 3)
    /\ call.result = Q(74, 100)

(* C15 *)

\* C15: for every pattern, an empty beat sequence gives resonance 0.0 without error,
\* and a pattern with an empty theme, symbol or tension set gets 0.0 for that
\* sub-score; no sub-score computation divides by zero.
C15_EmptyInputsGiveZero ==
    call.op = "_measure_pattern_resonance"
    => /\ 0 \notin call.divisors
       /\ (call.nodes = Empty => call.result = Zero)
       /\ (call.pattern.core_themes = {} => call.theme_resonance = Zero)
       /\ (DOMAIN call.pattern.symbolic_elements = {} => call.symbol_resonance = Zero)
       /\ (call.pattern.narrative_tensions = Empty => call.tension_resonance = Zero)

\* a pattern without symbols measured over two beats that hold its themes: the
\* symbolic sub-score is 0.0 while the thematic one is computed
C15_Witness ==
    /\ call.op = "_measure_pattern_resonance"
    /\ call.pattern_id = "no_symbols"
    /\ DOMAIN call.pattern.symbolic_elements = {}
    /\ Len(call.nodes) = 2
    /\ call.symbol_resonance = Zero
    /\ call.theme_resonance = One
    /\ call.divisors = {2, 3}

(* C16 *)

\* C16: excavate_patterns returns exactly the library patterns whose resonance over
\* the beat sequence is strictly greater than 0.4, each mapped to that resonance; a
\* pattern with resonance 0.4 or lower is absent and no identifier outside the
\* library appears.
C16_ExactlyAboveThreshold ==
    call.op = "excavate_patterns"
    => /\ DOMAIN call.result =
             {p \in DOMAIN archetypal_patterns : QLess(Q(4, 10), call.resonance[p])}
       /\ \A p \in DOMAIN call.result : call.result[p] = call.resonance[p]
       /\ \A p \in DOMAIN archetypal_patterns :
             QLeq(call.resonance[p], Q(4, 10)) => p \notin DOMAIN call.result

\* a beat that holds the three themes of the tragic fall at full strength and none
\* of its symbols or tensions: the resonance is exactly 0.4 and the pattern is absent
C16_Witness ==
    /\ call.op = "excavate_patterns"
    /\ Len(call.timeline_nodes) = 1
    /\ call.resonance["tragic_fall"] = Q(4, 10)
    /\ "tragic_fall" \notin DOMAIN call.result

(* C17 *)

\* C17: every per-beat symbol depth recorded by the narrative-depth analysis lies in
\* [0,1], also when the description match, several mentioning actions, matching
\* themes and impact levels together add up to more than 1.0.
C17_SymbolDepthInUnitInterval ==
    /\ \A s \in DOMAIN symbolic_depth : \A i \in 1..Len(symbolic_depth[s]) :
          QLeq(Zero, symbolic_depth[s][i]) /\ QLeq(symbolic_depth[s][i], One)
    /\ call.op = "analyze_narrative_depth"
       => \A s \in DOMAIN call.result : \A i \in 1..Len(call.result[s]) :
             QLeq(Zero, call.result[s][i]) /\ QLeq(call.result[s][i], One)

\* the symbol "recognition" in a beat whose description holds it (0.3), with two
\* actions mentioning it (0.4, and 0.3 for their impact levels 1.0 and 0.5) and the
\* theme of that name at full strength (0.3): the terms add up to 1.3, the recorded
\* depth is 1.0; "prophecy" is in the description only and gets 0.3
C17_Witness ==
    /\ call.op = "analyze_narrative_depth"
    /\ Len(call.nodes) = 1
    /\ Contains(call.nodes[1].description, "recognition")
    /\ Cardinality({sl \in ActionSlots(call.nodes[1]) :
                       Contains(ActionAt(call.nodes[1], sl).action_text, "recognition")}) = 2
    /\ Get(call.nodes[1].thematic_elements, "recognition", Zero) = One
    /\ symbolic_depth = call.result
    /\ symbolic_depth["recognition"] = <<One>>
    /\ symbolic_depth["prophecy"] = <<Q(3, 10)>>

(* C18 *)

\* C18: analyzing a variant whose beats are identical to those given for its
\* registered reference yields a mapping whose canonical fidelity is 1.0 (within a
\* tolerance of 0.01).
C18_IdenticalVariantFidelityOne ==
    (/\ call.op = "analyze_variant"
     /\ call.canonical_id \in DOMAIN reference_nodes
     /\ call.variant_nodes = reference_nodes[call.canonical_id])
    => /\ ~call.raised
       /\ QLeq(Q(99, 100), call.result.canonical_fidelity)
       /\ QLeq(call.result.canonical_fidelity, Q(101, 100))

(* C19 *)

\* C19: canonical fidelity equals 0.5 x element fidelity + 0.2 x (1 - mean absolute
\* archetypal shift) + 0.3 x style resonance and lies in [0,1], the element fidelity
\* being the mean over the variant's elements of their best similarity; the style
\* resonance itself stays within [0,1] however many beats the variant has.
C19_FidelityFormulaInUnitInterval ==
    /\ call.op = "_calculate_canonical_fidelity"
       => LET em == call.element_mappings
              sh == call.archetypal_shifts
              best(e) == IF DOMAIN em[e] = {} THEN Zero ELSE MaxValue(em[e])
              element_fidelity ==
                  IF DOMAIN em = {} THEN Zero
                  ELSE QDivInt(QSum([e \in DOMAIN em |-> best(e)], DOMAIN em),
                               Cardinality(DOMAIN em))
              mean_shift ==
                  IF DOMAIN sh = {} THEN Zero
                  ELSE QDivInt(QSum([p \in DOMAIN sh |-> QAbs(sh[p])], DOMAIN sh),
                               Cardinality(DOMAIN sh))
          IN /\ call.result =
                   QAdd(QAdd(QMul(Q(5, 10), element_fidelity),
                             QMul(Q(2, 10), QSub(One, mean_shift))),
                        QMul(Q(3, 10), call.melville_resonance))
             /\ QLeq(Zero, call.result) /\ QLeq(call.result, One)
             /\ QLeq(Zero, call.melville_resonance) /\ QLeq(call.melville_resonance, One)
    /\ call.op = "_analyze_melville_resonance"
       => QLeq(Zero, call.result) /\ QLeq(call.result, One)

\* a variant of three beats that each hold every theme, symbol and character type of
\* the three works: the summed work resonances divided by 3 pass 1.0 and the style
\* resonance is 1.0; with two fully matched elements and no pattern on either side
\* the fidelity is 0.5 + 0.2 + 0.3
C19_Witness ==
    /\ call.op = "_calculate_canonical_fidelity"
    /\ call.beats = 3
    /\ call.melville_resonance = One
    /\ Cardinality(DOMAIN call.element_mappings) = 2
    /\ DOMAIN call.archetypal_shifts = {}
    /\ call.result = One

(* C20 *)

SubScoreSum(pattern, nodes) ==
    QAdd(QAdd(QMul(_calculate_thematic_resonance(pattern.core_themes, nodes), Q(4, 10)),
              QMul(_calculate_symbolic_resonance(pattern.symbolic_elements, nodes), Q(3, 10))),
         QMul(_calculate_tension_resonance(pattern.narrative_tensions, nodes), Q(3, 10)))

\* C21: a sub-score of a pattern that fails contributes 0.0 and nothing else is lost:
\* the resonance of the pattern is still 0.4, 0.3 and 0.3 times the three sub-scores
\* with the failed ones at zero, and excavate_patterns still returns every library
\* pattern whose sum over the remaining sub-scores exceeds 0.4, with that sum.
C21_FailedSubScoreIsZeroOnly ==
    /\ call.op = "_measure_pattern_resonance"
       => /\ "thematic" \in call.failed => call.theme_resonance = Zero
          /\ "tension" \in call.failed => call.tension_resonance = Zero
          /\ call.result = QAdd(QAdd(QMul(call.theme_resonance, Q(4, 10)),
                                     QMul(call.symbol_resonance, Q(3, 10))),
                                QMul(call.tension_resonance, Q(3, 10)))
    /\ call.op = "excavate_patterns"
       => \A p \in DOMAIN archetypal_patterns :
             \E expected \in {SubScoreSum(archetypal_patterns[p], call.timeline_nodes)} :
                 IF QLess(Q(4, 10), expected)
                 THEN p \in DOMAIN call.result /\ call.result[p] = expected
                 ELSE p \notin DOMAIN call.result

\* one beat without a theme map whose description holds the symbols and the tension
\* pairs of the tragic fall: the thematic sub-score of every pattern fails, and the
\* tragic fall is still returned, with 0.3 * 0.8 + 0.3 * 1.0
C21_Witness ==
    /\ call.op = "excavate_patterns"
    /\ Len(call.timeline_nodes) = 1
    /\ NoThemeMap(call.timeline_nodes[1])
    /\ ThematicFails(archetypal_patterns["tragic_fall"].core_themes, call.timeline_nodes)
    /\ DOMAIN call.result = {"tragic_fall"}
    /\ call.result["tragic_fall"] = Q(54, 100)

(* C22 *)

\* the positions of the catalogue: a mythos and an index into its list
CataloguePositions(catalogue) ==
    UNION {{<<m, i>> : i \in 1..Len(catalogue[m])} : m \in DOMAIN catalogue}

FoundIn(pattern, node) ==
    [character_types |->
        {c \in pattern.character_types :
            \E sl \in ActionSlots(node) : InText(ActionAt(node, sl).action_text, c)},
     symbols |-> {s \in pattern.symbols : InText(node.description, s)},
     thematic_elements |-> pattern.thematic_elements \cap DOMAIN node.thematic_elements]

\* the fraction of a marker set that was found, 0 for an empty marker set
Fraction(found, markers) ==
    IF markers = {} THEN Zero ELSE Q(Cardinality(found), Cardinality(markers))

ThemeWeight(theme, patterns) ==
    LET boosting == {p \in KnownActive(patterns) :
                        theme \in archetypal_patterns[p].core_themes}
    IN QMul(Get(thematic_weights, theme, Q(5, 10)),
            QProd([p \in boosting |-> QAdd(One, patterns[p])], boosting))

\* result = weighted mean of |current - next| over the given themes, 0.0 when the
\* total weight is zero
IsWeightedMeanOver(themes, result, current_themes, next_themes, patterns) ==
    LET difference(t) == QAbs(QSub(Get(current_themes, t, Zero), Get(next_themes, t, Zero)))
        total_drift == QSum([t \in themes |-> QMul(difference(t), ThemeWeight(t, patterns))],
                            themes)
        total_weight == QSum([t \in themes |-> ThemeWeight(t, patterns)], themes)
    IN IF QLess(Zero, total_weight)
       THEN QMul(result, total_weight) = total_drift
       ELSE result = Zero

\* C24 as stated: the thematic drift is the weighted mean over the themes of the
\* current and of the next beat.
C24_MeanOverBeatThemes ==
    call.op = "_calculate_thematic_drift"
    => IsWeightedMeanOver(DOMAIN call.current_themes \cup DOMAIN call.next_themes,
                          call.result, call.current_themes, call.next_themes,
                          call.active_patterns)

\* C24, amended: the thematic drift is the weighted mean of |current - next| over
\* the themes of the current beat, of the next beat and the core themes of every
\* active library pattern (a theme missing on a side counting as 0.0, so a core
\* theme in neither beat adds its weight and no difference); it is 0.0 when the two
\* theme maps are identical or the total weight is zero.
C24_MeanOverBeatAndPatternThemes ==
    call.op = "_calculate_thematic_drift"
    => /\ IsWeightedMeanOver(
              DOMAIN call.current_themes \cup DOMAIN call.next_themes
                 \cup UNION {archetypal_patterns[p].core_themes :
                                p \in KnownActive(call.active_patterns)},
              call.result, call.current_themes, call.next_themes, call.active_patterns)
       /\ call.current_themes = call.next_themes => call.result = Zero
       /\ (DOMAIN call.current_themes \cup DOMAIN call.next_themes = {}
           /\ KnownActive(call.active_patterns) = {}) => call.result = Zero

\* revenge at strength 1 fades out while the tragic fall is active: over revenge
\* alone the mean would be 1, with the three core themes of the pattern in the
\* denominator the drift is lower
C24_Witness ==
    /\ call.op = "_calculate_thematic_drift"
    /\ call.current_themes = RevengeThemes
    /\ call.next_themes = Empty
    /\ "tragic_fall" \in DOMAIN call.active_patterns
    /\ QLess(Zero, call.result)
    /\ QLess(call.result, One)

(* C25 *)

\* the sum of the drift formula before the clamp (lines 218-220)
UnclampedDrift(current_drift, is_canonical_node, thematic_drift, pattern_consistency) ==
    QAdd(QAdd(QMul(QMul(current_drift, IF is_canonical_node THEN Q(7, 10) ELSE Q(13, 10)),
                   Q(4, 10)),
              QMul(thematic_drift, Q(3, 10))),
         QMul(QSub(One, pattern_consistency), Q(3, 10)))

\* C25: for a current drift and a thematic drift in [0,1] and a pattern consistency
\* in [0.4,1], the sum of the drift formula lies in [0,1] before the clamp, equals 1
\* only for drift 1 on a non-canonical beat with thematic drift 1 and consistency
\* 0.4, and is the value _update_canonical_drift returns.
C25_ClampIdleAboveThreshold ==
    (/\ call.op = "_update_canonical_drift"
     /\ QLeq(Zero, call.current_drift) /\ QLeq(call.current_drift, One)
     /\ QLeq(Zero, call.thematic_drift) /\ QLeq(call.thematic_drift, One)
     /\ QLeq(MinConsistency, call.pattern_consistency)
     /\ QLeq(call.pattern_consistency, One))
    => \E raw \in {UnclampedDrift(call.current_drift, call.is_canonical_node,
                                  call.thematic_drift, call.pattern_consistency)} :
          /\ QLeq(Zero, raw) /\ QLeq(raw, One)
          /\ call.result = raw
          /\ raw = One => /\ call.current_drift = One
                          /\ ~call.is_canonical_node
                          /\ call.thematic_drift = One
                          /\ call.pattern_consistency = MinConsistency

\* the corner of the claim: 1 x 1.3 x 0.4 + 1 x 0.3 + 0.6 x 0.3 = 1.0, returned as it is
C25_Witness ==
    /\ call.op = "_update_canonical_drift"
    /\ call.current_drift = One
    /\ ~call.is_canonical_node
    /\ call.thematic_drift = One
    /\ call.pattern_consistency = MinConsistency
    /\ UnclampedDrift(One, FALSE, One, MinConsistency) = One
    /\ call.result = One

(* C26 *)

\* C26 as stated: a start_mission that returns an error leaves the status and the
\* assignee of every suit and the table of active missions as they were.
C26_FailedStartChangesNothing ==
    (call.op = "start_mission" /\ call.status = "error")
    => /\ \A s \in DOMAIN suits :
             /\ suits[s].status = call.suits_before[s].status
             /\ suits[s].assigned_to = call.suits_before[s].assigned_to
       /\ active_missions = call.missions_before

(* C27 *)

\* C27: no suit is suited up successfully more than once, and a suit that is
\* CHARGING stays CHARGING without an assignee over every later suit_up,
\* start_mission and end_mission.
C27_SuitUpOncePerSuit ==
    [][/\ \A s \in DOMAIN suits :
             suits[s].status = CHARGING
             => suits'[s].status = CHARGING /\ suits'[s].assigned_to = Unassigned
       /\ \A s \in DOMAIN suits : suit_up_successes'[s] <= 1]_vars

\* byron's suit was used once and released, and a later suit_up of byron was refused
C27_Witness ==
    /\ call.op = "suit_up"
    /\ call.persona = "byron"
    /\ call.status = "error"
    /\ call.suits_before["byron_suit"].status = CHARGING
    /\ suits["byron_suit"].status = CHARGING
    /\ suits["byron_suit"].assigned_to = Unassigned
    /\ suit_up_successes["byron_suit"] = 1

(* C28 *)

\* C28: in the villa of villa_core.py, after any sequence of move_persona calls on
\* known personas, accepted or rejected, every persona is an occupant of the room
\* persona_locations records for it and of no other room, and no room holds more
\* personas than its max_occupants.
C28_OneRoomEachWithinCapacity ==
    /\ \A p \in DOMAIN persona_locations : \A r \in DOMAIN rooms :
          p \in rooms[r].current_occupants <=> r = persona_locations[p]
    /\ \A r \in DOMAIN rooms :
          Cardinality(rooms[r].current_occupants) <= rooms[r].max_occupants
    /\ call.op = "move_persona" => call.status \in {"error", "success"}

\* byron's study holds byron and mary shelley, and percy shelley has just been
\* refused there
C28_Witness ==
    /\ call.op = "move_persona"
    /\ call.persona = "percy_shelley"
    /\ call.target_room = "byron_study"
    /\ call.status = "error"
    /\ rooms["byron_study"].current_occupants = {"lord_byron", "mary_shelley"}
    /\ persona_locations["mary_shelley"] = "byron_study"
    /\ rooms["mary_chamber"].current_occupants = {}

(* C29 *)

\* C29 as stated: a move_persona, start_activity or trigger_vr_mission of
\* villa_architecture.py that returns an error leaves the occupants and the
\* activity of every room, the persona locations, the mission of the control room
\* and the mission table as they were.
C29_FailedOperationChangesNothing ==
    [][(call'.op \in {"move_persona", "start_activity", "trigger_vr_mission"}
        /\ call'.status = "error")
       => /\ architecture_rooms' = architecture_rooms
          /\ architecture_locations' = architecture_locations
          /\ vr_missions' = vr_missions]_vars

(* C30 *)

\* C30 as stated: start_game, choose_strategic_move and play_round leave the room
\* graph alone: the connected_rooms list of every room of the villa is the one
\* __init__ gave it.
C30_RoomGraphNeverModified ==
    \A r \in DOMAIN rooms : rooms[r].connected_rooms = VillaCoreRooms[r].connected_rooms

====
